---- MODULE Spec2Model ----
(***************************************************************************)
(* Verification model of the travel slot-filling core:                     *)
(*   - TravelEntities and EntityExtractor        (specification Spec)      *)
(*   - RateLimiter.acquire under concurrent use  (LimiterSpec)             *)
(*   - MistralAIClient construction and calls    (ClientSpec)              *)
(***************************************************************************)
EXTENDS Integers, Sequences, FiniteSets, TLC

VARIABLES
    entities,     \* a TravelEntities object: the one the fold holds (message_handler.py:130-136)
    \* RateLimiter (api_client.py:36-79)
    max_rps,      \* self.max_rps
    tokens,       \* self.tokens, in units of 1/TokenUnit token
    last_check,   \* self.last_check, in clock ticks
    lock,         \* self.lock: the thread holding it, or NoThread
    now,          \* time.time(), in ticks of 1/(max_rps * TokenUnit) second
    idle,         \* ticks that passed while no caller slept inside acquire()
    lpc,          \* per thread: the line of acquire() it stands at
    current_time, \* per thread: the local current_time
    wait_time,    \* per thread: the local wait_time (0 until computed)
    calls,        \* per thread: acquire() calls that have returned
    \* MistralAIClient (api_client.py:82-248)
    _rate_limiter,      \* the class attribute: NoLimiter (None) or a limiter's identity
    _rate_limiter_lock, \* the class-level Lock: its holder, or NoThread
    limiters,           \* RateLimiter objects constructed so far
    client,             \* per thread: its client's [api_key, sdk] once constructed
    cpc,                \* per thread: where its constructor or extract_entities call stands
    call,               \* per thread: the extract_entities call in progress
    ncalls,             \* per thread: extract_entities calls that have ended
    \* MessageHandler, GetRoutes, GetRoutesWithStops, EntityExtractor._extract_date
    turn,               \* the process_message call in progress (message_handler.py:62-89)
    ranking,            \* a get_aggregated_routes, _get_fastest_routes or GetRoutes.get_routes call
    journey,            \* a find_multi_leg_route or service get_routes call and its result
    date_call,          \* an _extract_date call and its result
    \* process_user_request (router.py:26-42)
    redis_client,       \* the Redis lists: key -> the JSON strings pushed to it, oldest first
    request,            \* per session: the request of that session being handled
    \* EntityExtractor.extract_entities on objects (extractor.py:33-107)
    extraction          \* an extract_entities call: the objects before it and after it

limVars == <<max_rps, tokens, last_check, lock, now, idle, lpc, current_time, wait_time, calls>>
cliVars == <<_rate_limiter, _rate_limiter_lock, limiters, client, cpc, call, ncalls>>
appVars == <<turn, ranking, journey, date_call>>
webVars == <<redis_client, request>>
objVars == <<extraction>>

(***************************************************************************)
(* Values                                                                  *)
(***************************************************************************)
\* Longest waypoint list the extraction service returns in one answer.
MaxMidLen == 2
\* Most slots one extraction answer or one message mentions.
MaxSlots == 2

NULL == "<null>"                       \* JSON null / Python None
Dates == {"01.05.2025", "02.05.2025"}  \* dates named numerically or by the service
Cities == {"Moscow", "Tver"}

\* Clock resolution: token units per token.
TokenUnit == 2
\* Ticks the clock may advance outside acquire().
MaxIdle == 2
\* acquire() calls each thread makes.
MaxCalls == 2
Threads == {"t1", "t2"}
NoThread == "none"
\* RateLimiter(max_rps): settings.MAX_RPS is 1.0 unless MISTRAL_MAX_RPS says otherwise.
MaxRpsValues == {1, 2}
\* extract_entities calls each client makes.
MaxClientCalls == 1
NoLimiter == 0

\* Python truthiness of a str-or-None value and of a list.
Truthy(v) == v # "" /\ v # NULL
TruthyList(l) == Len(l) > 0

SetOf(s) == {s[i] : i \in DOMAIN s}

\* list(set(...)): every element once, in an order the runtime chooses.
Orderings(S) ==
    {s \in [1..Cardinality(S) -> S] : \A i, j \in 1..Cardinality(S) : i # j => s[i] # s[j]}

(***************************************************************************)
(* TravelEntities (entities.py)                                            *)
(***************************************************************************)
TransportKinds == {"train", "plane", "bus"}

DEFAULT_PREFERED_TRANSPORT == [k \in TransportKinds |-> 0]

\* TravelEntities() with no data.
EmptyEntities ==
    [date |-> "", start_city |-> "", end_city |-> "", mid_city |-> <<>>,
     prefered_transport |-> DEFAULT_PREFERED_TRANSPORT]

\* Mutant: the destination is not looked at.
is_completeWithoutEnd(e) == Truthy(e.date) /\ Truthy(e.start_city)

is_complete(e) == Truthy(e.date) /\ Truthy(e.start_city) /\ Truthy(e.end_city)

get_missing_entities(e) ==
    LET m1 == IF ~Truthy(e.date) THEN <<"date">> ELSE <<>>
        m2 == IF ~Truthy(e.start_city) THEN Append(m1, "start_city") ELSE m1
    IN  IF ~Truthy(e.end_city) THEN Append(m2, "end_city") ELSE m2

\* A dictionary handed to update() or returned by the extraction service:
\* `present` holds its keys, the other fields the values of the keys present.
SlotKeys == {"date", "start_city", "end_city", "mid_city", "prefered_transport"}
MidLists == UNION {[1..n -> Cities] : n \in 0..MaxMidLen}
PrefMaps == UNION {[K -> {0, 1}] : K \in SUBSET TransportKinds}

DictWeight(d) ==
    Cardinality(d.present \ {"prefered_transport"})
    + (IF "prefered_transport" \in d.present
       THEN (IF DOMAIN d.prefered_transport = {} THEN 1
             ELSE Cardinality(DOMAIN d.prefered_transport))
       ELSE 0)

\* The dictionaries of at most MaxSlots slots, keys not present left at a
\* fixed value.
BoundedDicts ==
    {d \in [present : SUBSET SlotKeys,
            date : Dates \cup {""},
            start_city : Cities \cup {""},
            end_city : Cities \cup {""},
            mid_city : MidLists,
            prefered_transport : PrefMaps] :
        /\ ("date" \notin d.present => d.date = "")
        /\ ("start_city" \notin d.present => d.start_city = "")
        /\ ("end_city" \notin d.present => d.end_city = "")
        /\ ("mid_city" \notin d.present => d.mid_city = <<>>)
        /\ ("prefered_transport" \notin d.present => DOMAIN d.prefered_transport = {})
        /\ DictWeight(d) <= MaxSlots}

RawDicts == {d : d \in BoundedDicts}

\* dict.get(key) of a string-valued key: None when the key is missing.
DictGet(d, k) == IF k \in d.present THEN d[k] ELSE NULL

\* Mutant: the slot is assigned whenever the key is present.
UpdateSlotIfPresent(old, d, k) == IF k \in d.present THEN d[k] ELSE old

\* The three string slots of update(): replaced only by a truthy value.
UpdateSlot(old, d, k) == IF Truthy(DictGet(d, k)) THEN d[k] ELSE old

\* mid_city of update(): the set union, listed in an order the runtime chooses.
UpdateMid(old, d) ==
    IF "mid_city" \in d.present /\ TruthyList(d.mid_city)
    THEN Orderings(SetOf(old) \cup SetOf(d.mid_city))
    ELSE {old}
\* Mutant: the supplied value is added to the flag.
UpdatePrefAdding(old, d) ==
    IF "prefered_transport" \in d.present
    THEN [k \in TransportKinds |->
            IF k \in DOMAIN d.prefered_transport THEN old[k] + d.prefered_transport[k]
            ELSE old[k]]
    ELSE old

\* Mutant: only a truthy value overwrites the flag, as for the string slots.
UpdatePrefTruthy(old, d) ==
    IF "prefered_transport" \in d.present
    THEN [k \in TransportKinds |->
            IF k \in DOMAIN d.prefered_transport /\ d.prefered_transport[k] # 0
            THEN d.prefered_transport[k] ELSE old[k]]
    ELSE old

\* prefered_transport of update(): per-key overwrite for the keys supplied.
UpdatePref(old, d) ==
    IF "prefered_transport" \in d.present
    THEN [k \in TransportKinds |->
            IF k \in DOMAIN d.prefered_transport THEN d.prefered_transport[k] ELSE old[k]]
    ELSE old
\* to_dict(): every key, with the value of its attribute.
to_dict(e) ==
    [present |-> SlotKeys, date |-> e.date, start_city |-> e.start_city,
     end_city |-> e.end_city, mid_city |-> e.mid_city,
     prefered_transport |-> e.prefered_transport]

\* TravelEntities.update(new_entities): the states it can leave the object in.
UpdateResults(e, d) ==
    {[date |-> UpdateSlot(e.date, d, "date"),
      start_city |-> UpdateSlot(e.start_city, d, "start_city"),
      end_city |-> UpdateSlot(e.end_city, d, "end_city"),
      mid_city |-> m,
      prefered_transport |-> UpdatePref(e.prefered_transport, d)] : m \in UpdateMid(e.mid_city, d)}

(***************************************************************************)
(* User messages, as the regex fallback reads them (extractor.py)          *)
(***************************************************************************)
\* What a message text holds: the digits and separators the date pattern is
\* searched in (numdate), a date word, the cities its cue words anchor, and the
\* transport kinds whose keywords occur.
DateWords == <<"segodnya", "zavtra", "poslezavtra">>

\* The numeric part of a text: digit groups (each a sequence of digits) with
\* one separator between neighbours, set off from the rest of the text by
\* non-digits.  A text has three groups or none.
NoDateText == [groups |-> <<>>, seps |-> <<>>]
DateText(g1, s1, g2, s2, g3) == [groups |-> <<g1, g2, g3>>, seps |-> <<s1, s2>>]
Separators == {".", "/", "-"}

\* "32.13.2025" and "1-5-25"
MessageDateTexts ==
    {NoDateText,
     DateText(<<3, 2>>, ".", <<1, 3>>, ".", <<2, 0, 2, 5>>),
     DateText(<<1>>, "-", <<5>>, "-", <<2, 5>>)}

MessageWeight(m) ==
    (IF m.numdate # NoDateText THEN 1 ELSE 0) + (IF m.word # "" THEN 1 ELSE 0)
    + (IF m.start_city # "" THEN 1 ELSE 0) + (IF m.end_city # "" THEN 1 ELSE 0)
    + (IF m.mid_city # <<>> THEN 1 ELSE 0) + Cardinality(m.transport)

\* Waypoints the cue patterns collect: no city twice (extractor.py:222, 244).
MessageMidLists == UNION {Orderings(S) : S \in SUBSET Cities}

BoundedMessages ==
    {m \in [numdate : MessageDateTexts,
            word : SetOf(DateWords) \cup {""},
            start_city : Cities \cup {""},
            end_city : Cities \cup {""},
            mid_city : MessageMidLists,
            transport : SUBSET TransportKinds] : MessageWeight(m) <= MaxSlots}

Messages == {m : m \in BoundedMessages}

\* `word in message.lower()` is a substring test: "poslezavtra" holds "zavtra".
WordIn(w, m) == m.word = w \/ (w = "zavtra" /\ m.word = "poslezavtra")

\* datetime.now(): the last days of April 2025.
Todays ==
    {[day |-> 28, days_in_month |-> 30],
     [day |-> 29, days_in_month |-> 30],
     [day |-> 30, days_in_month |-> 30]}

\* strftime("%d.%m.%Y") of a day of that month.
Strftime(day) ==
    CASE day = 28 -> "28.04.2025"
      [] day = 29 -> "29.04.2025"
      [] day = 30 -> "30.04.2025"

\* datetime.replace(day=n) raises ValueError when the month has no day n.
ReplaceDayOk(today, n) == n <= today.days_in_month

\* The last n and the first n elements of a digit group.
LastDigits(g, n) == IF Len(g) <= n THEN g ELSE SubSeq(g, Len(g) - n + 1, Len(g))
FirstDigits(g, n) == IF Len(g) <= n THEN g ELSE SubSeq(g, 1, n)

\* re.search of (\d{1,2}[./-]\d{1,2}[./-]\d{2,4}): the leftmost match.  It
\* needs a middle group of one or two digits and a last group of at least two;
\* it starts at most two digits before the first separator and takes at most
\* four digits after the second.
date_match(t) ==
    IF Len(t.groups) = 3 /\ Len(t.groups[1]) >= 1
          /\ Len(t.groups[2]) \in 1..2 /\ Len(t.groups[3]) >= 2
    THEN [found |-> TRUE,
          groups |-> <<LastDigits(t.groups[1], 2), t.groups[2], FirstDigits(t.groups[3], 4)>>,
          seps |-> t.seps]
    ELSE [found |-> FALSE, groups |-> <<>>, seps |-> <<>>]

\* Lines 165-170: the separator date_str is split on, and the parts: three of
\* them only when both separators are that one (otherwise the unpacking
\* raises ValueError).
SplitSeparator(dm) ==
    IF "/" \in SetOf(dm.seps) THEN "/" ELSE IF "-" \in SetOf(dm.seps) THEN "-" ELSE "."

SplitsInThree(dm) == \A i \in DOMAIN dm.seps : dm.seps[i] = SplitSeparator(dm)

\* int() of a digit string, and the string of digits itself.
RECURSIVE IntOf(_)
IntOf(g) == IF g = <<>> THEN 0 ELSE 10 * IntOf(SubSeq(g, 1, Len(g) - 1)) + g[Len(g)]

RECURSIVE DigitString(_)
DigitString(g) == IF g = <<>> THEN "" ELSE ToString(Head(g)) \o DigitString(Tail(g))

\* The format specification :02d
TwoDigits(n) == IF n < 10 THEN "0" \o ToString(n) ELSE ToString(n)

\* Mutant: the month is not validated.
DateInRangeAnyMonth(day_int, month_int, year_int) ==
    1 <= day_int /\ day_int <= 31 /\ 2000 <= year_int /\ year_int <= 2100

\* Line 181
DateInRange(day_int, month_int, year_int) ==
    /\ 1 <= day_int /\ day_int <= 31
    /\ 1 <= month_int /\ month_int <= 12
    /\ 2000 <= year_int /\ year_int <= 2100

\* Lines 162-187: the matched text to dd.mm.yyyy, or "" when it does not
\* split in three or fails validation.
NormalizeDate(dm) ==
    IF ~SplitsInThree(dm) THEN ""
    ELSE LET first == dm.groups[1]
             month == dm.groups[2]
             last == dm.groups[3]
             day == IF Len(first) = 4 THEN last ELSE first
             year0 == IF Len(first) = 4 THEN first ELSE last
             year == IF Len(year0) = 2 THEN <<2, 0>> \o year0 ELSE year0
         IN  IF DateInRange(IntOf(day), IntOf(month), IntOf(year))
             THEN TwoDigits(IntOf(day)) \o "." \o TwoDigits(IntOf(month)) \o "." \o DigitString(year)
             ELSE ""

\* _extract_date: [raised, value].  Without a match of the date pattern the
\* date_words dictionary is built, with both replace() calls, before any word
\* is looked for.
_extract_date(m, today) ==
    LET dm == date_match(m.numdate)
    IN  IF ~dm.found
        THEN IF ~(ReplaceDayOk(today, today.day + 1) /\ ReplaceDayOk(today, today.day + 2))
             THEN [raised |-> "ValueError", value |-> ""]
             ELSE IF WordIn(DateWords[1], m)
                  THEN [raised |-> "none", value |-> Strftime(today.day)]
             ELSE IF WordIn(DateWords[2], m)
                  THEN [raised |-> "none", value |-> Strftime(today.day + 1)]
             ELSE IF WordIn(DateWords[3], m)
                  THEN [raised |-> "none", value |-> Strftime(today.day + 2)]
             ELSE [raised |-> "none", value |-> ""]
        ELSE [raised |-> "none", value |-> NormalizeDate(dm)]

_extract_cities(m) ==
    [start_city |-> m.start_city, end_city |-> m.end_city, mid_city |-> m.mid_city]
\* Mutant: the mapping is built anew from the message.
_extract_transportAnew(m, current_transport) ==
    [k \in TransportKinds |-> IF k \in m.transport THEN 1 ELSE 0]

_extract_transport(m, current_transport) ==
    [k \in TransportKinds |-> IF k \in m.transport THEN 1 ELSE current_transport[k]]

\* Mutant: a city found in the message replaces the known one.
FillCityAlways(known, found) == IF Truthy(found) THEN found ELSE known

\* Lines 89-93: a city found in the message fills the slot only while it is empty.
FillCity(known, found) == IF Truthy(found) /\ ~Truthy(known) THEN found ELSE known

\* _extract_entities_fallback: the outcomes [raised, value] it can have.
_extract_entities_fallback(m, cur, today) ==
    LET dt == IF ~Truthy(cur.date) THEN _extract_date(m, today)
              ELSE [raised |-> "none", value |-> cur.date]
        cities == _extract_cities(m)
        mids == IF TruthyList(cities.mid_city)
                THEN Orderings(SetOf(cur.mid_city) \cup SetOf(cities.mid_city))
                ELSE {cur.mid_city}
    IN  IF dt.raised # "none"
        THEN {[raised |-> dt.raised, value |-> cur]}
        ELSE {[raised |-> "none",
               value |->
                 [date |-> dt.value,
                  start_city |-> FillCity(cur.start_city, cities.start_city),
                  end_city |-> FillCity(cur.end_city, cities.end_city),
                  mid_city |-> ml,
                  prefered_transport |-> _extract_transport(m, cur.prefered_transport)]]
              : ml \in mids}

(***************************************************************************)
(* EntityExtractor.extract_entities (extractor.py:33-74)                   *)
(***************************************************************************)
\* What api_client.extract_entities hands back: a JSON object, a JSON array,
\* another JSON value (number, null, boolean), or a raised APIError.
ClientOutcomeKinds == {"dict", "list", "scalar", "APIError"}

NoDict == CHOOSE d \in RawDicts : d.present = {}
NoMessage == CHOOSE m \in Messages : MessageWeight(m) = 0
AnyToday == CHOOSE t \in Todays : TRUE
\* Mutant: the value of the service is taken whenever the key is there.
MergeSlotIfPresent(old, d, k) == IF k \in d.present THEN d[k] ELSE old

\* One of the string slots in the primary path's own merge loop.
MergeSlot(old, d, k) ==
    IF k \in d.present
    THEN (IF Truthy(d[k]) \/ ~Truthy(old) THEN d[k] ELSE old)
    ELSE old

\* mid_city in the primary path's merge loop.
MergeMid(old, d) ==
    IF "mid_city" \in d.present
    THEN (IF TruthyList(d.mid_city) \/ ~TruthyList(old) THEN d.mid_city ELSE old)
    ELSE old

\* prefered_transport in the merge loop: {**value, **extracted_dict[key]}.
MergePref(old, d) ==
    IF "prefered_transport" \in d.present
    THEN [k \in TransportKinds |->
            IF k \in DOMAIN d.prefered_transport THEN d.prefered_transport[k] ELSE old[k]]
    ELSE old

MergeExtracted(cur, d) ==
    [date |-> MergeSlot(cur.date, d, "date"),
     start_city |-> MergeSlot(cur.start_city, d, "start_city"),
     end_city |-> MergeSlot(cur.end_city, d, "end_city"),
     mid_city |-> MergeMid(cur.mid_city, d),
     prefered_transport |-> MergePref(cur.prefered_transport, d)]

\* The except clause of extract_entities: which client outcome it catches.
CaughtByExtractor(kind) == kind = "APIError"

\* extract_entities: the outcomes [fallback, raised, value] of one call whose
\* client call ended as `o`.
extract_entities(m, cur, o, today) ==
    IF CaughtByExtractor(o.kind)
    THEN {[fallback |-> TRUE, raised |-> r.raised, value |-> r.value]
            : r \in _extract_entities_fallback(m, cur, today)}
    ELSE IF o.kind = "APIError"
    THEN {[fallback |-> FALSE, raised |-> "APIError", value |-> cur]}
    ELSE IF o.kind = "dict"
    THEN {[fallback |-> FALSE, raised |-> "none", value |-> MergeExtracted(cur, o.d)]}
    ELSE IF o.kind = "list"
    THEN {[fallback |-> FALSE, raised |-> "none", value |-> cur]}
    ELSE {[fallback |-> FALSE, raised |-> "TypeError", value |-> cur]}

(***************************************************************************)
(* RateLimiter (api_client.py:36-79).  Time is counted in ticks of         *)
(* 1/(max_rps * TokenUnit) second and tokens in units of 1/TokenUnit, so   *)
(* time_passed * max_rps is one unit per tick, a whole token is TokenUnit  *)
(* units and (1.0 - tokens) / max_rps is TokenUnit - tokens ticks.         *)
(***************************************************************************)
Min(a, b) == IF a <= b THEN a ELSE b

\* RateLimiter.__init__ at clock 0, no caller yet.
LimiterInitWith(r) ==
    /\ max_rps = r
    /\ tokens = r * TokenUnit
    /\ last_check = 0
    /\ lock = NoThread
    /\ now = 0
    /\ idle = 0
    /\ lpc = [t \in Threads |-> "idle"]
    /\ current_time = [t \in Threads |-> 0]
    /\ wait_time = [t \in Threads |-> 0]
    /\ calls = [t \in Threads |-> 0]

\* Mutant: the with-block admits every caller.
LockFreeAlways == TRUE

\* `with self.lock:` admits a caller only while no one holds the lock.
LockFree == lock = NoThread

\* Mutant: a return from inside the with-block keeps the lock.
UnlockNever == lock' = lock

\* Leaving the with-block releases the lock.
Unlock == lock' = NoThread
\* Mutant: the refill is not capped.
RefillUncapped(tk, time_passed) == tk + time_passed

\* The refill of line 68.
Refill(tk, time_passed) == Min(max_rps * TokenUnit, tk + time_passed)

\* acquire() is called.
CallAcquire(t) ==
    /\ lpc[t] = "idle"
    /\ calls[t] < MaxCalls
    /\ lpc' = [lpc EXCEPT ![t] = "l62"]
    /\ wait_time' = [wait_time EXCEPT ![t] = 0]
    /\ UNCHANGED <<entities, webVars, objVars, appVars, cliVars, max_rps, tokens, last_check, lock, now, idle, current_time, calls>>

\* line 62: with self.lock
EnterLock(t) ==
    /\ lpc[t] = "l62"
    /\ LockFree
    /\ lock' = t
    /\ lpc' = [lpc EXCEPT ![t] = "l63"]
    /\ UNCHANGED <<entities, webVars, objVars, appVars, cliVars, max_rps, tokens, last_check, now, idle, current_time, wait_time, calls>>

\* line 63: current_time = time.time()
ReadClock(t) ==
    /\ lpc[t] = "l63"
    /\ current_time' = [current_time EXCEPT ![t] = now]
    /\ lpc' = [lpc EXCEPT ![t] = "l64"]
    /\ UNCHANGED <<entities, webVars, objVars, appVars, cliVars, max_rps, tokens, last_check, lock, now, idle, wait_time, calls>>

\* lines 64-68: time_passed, last_check, refill
RefillTokens(t) ==
    /\ lpc[t] = "l64"
    /\ last_check' = current_time[t]
    /\ tokens' = Refill(tokens, current_time[t] - last_check)
    /\ lpc' = [lpc EXCEPT ![t] = "l70"]
    /\ UNCHANGED <<entities, webVars, objVars, appVars, cliVars, max_rps, lock, now, idle, current_time, wait_time, calls>>

\* lines 70-72: not enough tokens, compute wait_time
TestShort(t) ==
    /\ lpc[t] = "l70"
    /\ tokens < TokenUnit
    /\ wait_time' = [wait_time EXCEPT ![t] = TokenUnit - tokens]
    /\ lpc' = [lpc EXCEPT ![t] = "l73"]
    /\ UNCHANGED <<entities, webVars, objVars, appVars, cliVars, max_rps, tokens, last_check, lock, now, idle, current_time, calls>>

\* lines 70, 76: enough tokens
TestEnough(t) ==
    /\ lpc[t] = "l70"
    /\ tokens >= TokenUnit
    /\ lpc' = [lpc EXCEPT ![t] = "l78"]
    /\ UNCHANGED <<entities, webVars, objVars, appVars, cliVars, max_rps, tokens, last_check, lock, now, idle, current_time, wait_time, calls>>

\* line 73: time.sleep(wait_time), with the lock held
Sleep(t) ==
    /\ lpc[t] = "l73"
    /\ now' = now + wait_time[t]
    /\ lpc' = [lpc EXCEPT ![t] = "l74"]
    /\ UNCHANGED <<entities, webVars, objVars, appVars, cliVars, max_rps, tokens, last_check, lock, idle, current_time, wait_time, calls>>

\* lines 74-75: tokens = 0.0; return wait_time
ReturnWaited(t) ==
    /\ lpc[t] = "l74"
    /\ tokens' = 0
    /\ Unlock
    /\ calls' = [calls EXCEPT ![t] = @ + 1]
    /\ lpc' = [lpc EXCEPT ![t] = "idle"]
    /\ UNCHANGED <<entities, webVars, objVars, appVars, cliVars, max_rps, last_check, now, idle, current_time, wait_time>>

\* lines 78-79: tokens -= 1.0; return 0.0
ReturnAtOnce(t) ==
    /\ lpc[t] = "l78"
    /\ tokens' = tokens - TokenUnit
    /\ Unlock
    /\ calls' = [calls EXCEPT ![t] = @ + 1]
    /\ lpc' = [lpc EXCEPT ![t] = "idle"]
    /\ UNCHANGED <<entities, webVars, objVars, appVars, cliVars, max_rps, last_check, now, idle, current_time, wait_time>>

\* The clock advances while no caller sleeps.
Tick ==
    /\ idle < MaxIdle
    /\ now' = now + 1
    /\ idle' = idle + 1
    /\ UNCHANGED <<entities, webVars, objVars, appVars, cliVars, max_rps, tokens, last_check, lock, lpc, current_time, wait_time, calls>>

AcquireStep(t) ==
    \/ EnterLock(t)
    \/ ReadClock(t)
    \/ RefillTokens(t)
    \/ TestShort(t)
    \/ TestEnough(t)
    \/ Sleep(t)
    \/ ReturnWaited(t)
    \/ ReturnAtOnce(t)

(***************************************************************************)
(* MistralAIClient (api_client.py:82-248): one client per thread           *)
(***************************************************************************)
NoClient == [api_key |-> FALSE, sdk |-> FALSE]

\* The clients a constructor can build: with or without an API key; self.client
\* (the SDK client) exists only with a key and an importable SDK.
ClientKinds ==
    {c \in [api_key : BOOLEAN, sdk : BOOLEAN] : c.sdk => c.api_key}

\* An extract_entities call: requests sent, acquire() calls made and the
\* limiter they used, the answers to the first and to the retry request,
\* whether the call slept before retrying, and how it ended.
NoCall ==
    [requests |-> 0, acquires |-> 0, limiter |-> NoLimiter, acquired_first |-> TRUE,
     first |-> "", second |-> "", slept |-> FALSE, outcome |-> ""]

\* Answers of self.client.chat.complete: content that is a JSON object, a JSON
\* array, another JSON value, or no JSON; a MistralException whose text holds
\* "429"; another MistralException; any other exception.
SdkAnswers == {"object", "array", "scalar", "not_json", "exc_429", "exc_mistral", "exc_other"}

\* Answers of requests.post: a 2xx body whose content is a JSON object, array,
\* other JSON value or no JSON; a 2xx body without choices[0].message.content;
\* status 429 with no Retry-After header, with an integer one, or with one that
\* int() rejects (an HTTP date); another error status; a RequestException.
RestAnswers ==
    {"object", "array", "scalar", "not_json", "bad_body",
     "http_429", "http_429_int", "http_429_date", "http_error", "exc_request"}

Answers(c) == IF c.sdk THEN SdkAnswers ELSE RestAnswers

\* What json.loads(content) returns for the answers that carry content.
Parsed(a) == CASE a = "object" -> "dict" [] a = "array" -> "list" [] a = "scalar" -> "scalar"

\* Does the answer to the first request lead to the sleep-and-retry branch?
\* SDK: `"429" in str(e)`.  REST: status 429, and int() of the Retry-After
\* header (or of THROTTLE_TIME when it is absent) must not raise.
Retries(c, a) ==
    IF c.sdk THEN a = "exc_429" ELSE a \in {"http_429", "http_429_int"}

\* How a request's answer ends the call when no retry follows it: the parsed
\* content is returned as it is; every exception leaves as APIError through
\* the except clauses of lines 240-248.
Ends(a) == IF a \in {"object", "array", "scalar"} THEN Parsed(a) ELSE "APIError"

\* Mutant: the constructor's with-block admits every thread.
CtorLockFreeAlways == TRUE

\* `with self._rate_limiter_lock:` (line 106)
CtorLockFree == _rate_limiter_lock = NoThread

ClientInit ==
    /\ _rate_limiter = NoLimiter
    /\ _rate_limiter_lock = NoThread
    /\ limiters = 0
    /\ client = [t \in Threads |-> NoClient]
    /\ cpc = [t \in Threads |-> "new"]
    /\ call = [t \in Threads |-> NoCall]
    /\ ncalls = [t \in Threads |-> 0]

\* lines 101-103: MistralAIClient(...) starts
Construct(t, c) ==
    /\ cpc[t] = "new"
    /\ client' = [client EXCEPT ![t] = c]
    /\ cpc' = [cpc EXCEPT ![t] = "l106"]
    /\ UNCHANGED <<entities, webVars, objVars, appVars, limVars, _rate_limiter, _rate_limiter_lock, limiters, call, ncalls>>

\* line 106: with self._rate_limiter_lock
CtorEnterLock(t) ==
    /\ cpc[t] = "l106"
    /\ CtorLockFree
    /\ _rate_limiter_lock' = t
    /\ cpc' = [cpc EXCEPT ![t] = "l107"]
    /\ UNCHANGED <<entities, webVars, objVars, appVars, limVars, _rate_limiter, limiters, client, call, ncalls>>

\* line 107: if MistralAIClient._rate_limiter is None
CtorTestNone(t) ==
    /\ cpc[t] = "l107"
    /\ cpc' = [cpc EXCEPT ![t] = IF _rate_limiter = NoLimiter THEN "l108" ELSE "l110"]
    /\ UNCHANGED <<entities, webVars, objVars, appVars, limVars, _rate_limiter, _rate_limiter_lock, limiters, client, call, ncalls>>

\* line 108: MistralAIClient._rate_limiter = RateLimiter(settings.MAX_RPS);
\* RateLimiter.__init__ fills the bucket and reads the clock
CtorCreateLimiter(t) ==
    /\ cpc[t] = "l108"
    /\ limiters' = limiters + 1
    /\ _rate_limiter' = limiters + 1
    /\ tokens' = max_rps * TokenUnit
    /\ last_check' = now
    /\ cpc' = [cpc EXCEPT ![t] = "l110"]
    /\ UNCHANGED <<entities, webVars, objVars, appVars, max_rps, lock, now, idle, lpc, current_time, wait_time, calls,
                   _rate_limiter_lock, client, call, ncalls>>

\* lines 110-122: the with-block ends, the constructor returns
CtorReturn(t) ==
    /\ cpc[t] = "l110"
    /\ _rate_limiter_lock' = IF _rate_limiter_lock = t THEN NoThread ELSE _rate_limiter_lock
    /\ cpc' = [cpc EXCEPT ![t] = "ready"]
    /\ UNCHANGED <<entities, webVars, objVars, appVars, limVars, _rate_limiter, limiters, client, call, ncalls>>
\* Mutant: with a key the call goes straight to the request.
AfterKeyCheckRequest == "l153"

\* Lines 142-146: with a key, the prompt is built and acquire() is called.
AfterKeyCheck == "l146"

\* Mutant: after the sleep the call starts over at acquire().
AfterThrottleSleepAcquire == "l146"

\* Lines 173-176 and 212-215: after the sleep the retry request is sent.
AfterThrottleSleep == "retry"

\* extract_entities(message, context) is called on the thread's client
CallExtract(t) ==
    /\ cpc[t] = "ready"
    /\ ncalls[t] < MaxClientCalls
    /\ call' = [call EXCEPT ![t] = NoCall]
    /\ cpc' = [cpc EXCEPT ![t] = "l138"]
    /\ UNCHANGED <<entities, webVars, objVars, appVars, limVars, _rate_limiter, _rate_limiter_lock, limiters, client, ncalls>>

\* lines 138-140: no API key, raise APIError
CheckKey(t) ==
    /\ cpc[t] = "l138"
    /\ IF client[t].api_key
       THEN /\ cpc' = [cpc EXCEPT ![t] = AfterKeyCheck]
            /\ call' = call
       ELSE /\ cpc' = [cpc EXCEPT ![t] = "ended"]
            /\ call' = [call EXCEPT ![t].outcome = "APIError"]
    /\ UNCHANGED <<entities, webVars, objVars, appVars, limVars, _rate_limiter, _rate_limiter_lock, limiters, client, ncalls>>

\* line 146: wait_time = self._rate_limiter.acquire().  The whole of acquire()
\* (LimiterSpec has its steps) runs here as one step, its sleep included.
AcquireLimiter(t) ==
    /\ cpc[t] = "l146"
    /\ LET tk == Refill(tokens, now - last_check)
       IN  /\ last_check' = now
           /\ IF tk < TokenUnit
              THEN tokens' = 0 /\ now' = now + (TokenUnit - tk)
              ELSE tokens' = tk - TokenUnit /\ now' = now
    /\ call' = [call EXCEPT ![t].acquires = @ + 1, ![t].limiter = _rate_limiter]
    /\ cpc' = [cpc EXCEPT ![t] = "l153"]
    /\ UNCHANGED <<entities, webVars, objVars, appVars, max_rps, lock, idle, lpc, current_time, wait_time, calls,
                   _rate_limiter, _rate_limiter_lock, limiters, client, ncalls>>

\* lines 153-167, 188-189 (SDK) and 192-209, 231-238 (REST): the first request
FirstRequest(t, a) ==
    /\ cpc[t] = "l153"
    /\ a \in Answers(client[t])
    /\ IF Retries(client[t], a)
       THEN /\ call' = [call EXCEPT ![t].requests = @ + 1, ![t].first = a,
                                    ![t].acquired_first = (call[t].acquires > 0)]
            /\ cpc' = [cpc EXCEPT ![t] = "sleep"]
       ELSE /\ call' = [call EXCEPT ![t].requests = @ + 1, ![t].first = a,
                                    ![t].acquired_first = (call[t].acquires > 0),
                                    ![t].outcome = Ends(a)]
            /\ cpc' = [cpc EXCEPT ![t] = "ended"]
    /\ UNCHANGED <<entities, webVars, objVars, appVars, limVars, _rate_limiter, _rate_limiter_lock, limiters, client, ncalls>>

\* lines 171-173 (SDK) and 210-212 (REST): time.sleep(retry_after), with
\* retry_after one second (settings.THROTTLE_TIME, or Retry-After: 1)
ThrottleSleep(t) ==
    /\ cpc[t] = "sleep"
    /\ now' = now + max_rps * TokenUnit
    /\ call' = [call EXCEPT ![t].slept = TRUE]
    /\ cpc' = [cpc EXCEPT ![t] = AfterThrottleSleep]
    /\ UNCHANGED <<entities, webVars, objVars, appVars, max_rps, tokens, last_check, lock, idle, lpc, current_time,
                   wait_time, calls, _rate_limiter, _rate_limiter_lock, limiters, client, ncalls>>

\* lines 176-186 (SDK) and 215-238 (REST): the retry request.  Nothing retries
\* again: a second 429 leaves through raise_for_status (REST) or through the
\* outer except clause (SDK).
RetryRequest(t, a) ==
    /\ cpc[t] = "retry"
    /\ a \in Answers(client[t])
    /\ call' = [call EXCEPT ![t].requests = @ + 1, ![t].second = a, ![t].outcome = Ends(a)]
    /\ cpc' = [cpc EXCEPT ![t] = "ended"]
    /\ UNCHANGED <<entities, webVars, objVars, appVars, limVars, _rate_limiter, _rate_limiter_lock, limiters, client, ncalls>>

\* the call returns or raises to its caller
EndCall(t) ==
    /\ cpc[t] = "ended"
    /\ ncalls' = [ncalls EXCEPT ![t] = @ + 1]
    /\ cpc' = [cpc EXCEPT ![t] = "ready"]
    /\ UNCHANGED <<entities, webVars, objVars, appVars, limVars, _rate_limiter, _rate_limiter_lock, limiters, client, call>>

(***************************************************************************)
(* GetRoutes (Routes/GetRoutes.py): search, preference filter and ranker   *)
(***************************************************************************)
\* Most segments one search answer holds in the ranker's inputs.
MaxSegments == 3
\* Largest num_routes the ranker is asked for.
MaxNumRoutes == 4

\* A segment without the key "duration" or "distance".
Absent == -1

\* self.transport_types; iterating the set visits its members in an order the
\* runtime chooses.
transport_types == {"plane", "train", "bus"}

\* Segments of a search answer: thread.transport_type, duration, distance.
\* "ship" stands for the kinds the ranker has no group for.
RankSegments ==
    {[transport_type |-> "train", duration |-> 10, distance |-> Absent],
     [transport_type |-> "train", duration |-> 20, distance |-> Absent],
     [transport_type |-> "plane", duration |-> 10, distance |-> Absent],
     [transport_type |-> "bus", duration |-> 20, distance |-> Absent],
     [transport_type |-> "bus", duration |-> Absent, distance |-> Absent],
     [transport_type |-> "ship", duration |-> 10, distance |-> Absent]}

SegmentLists == UNION {[1..n -> RankSegments] : n \in 0..MaxSegments}

\* prefered_transport=None (and {}): a mapping without keys.
NoPreference == [k \in {} |-> 0]

\* What get_routes gets from the directory and the search endpoint: no routes
\* (a city without station code, or a RequestException), a body without the
\* key "segments", or a body with segments.
NoRoutes == [found |-> FALSE, has_segments |-> FALSE, segments |-> <<>>]
NoSegmentsKey == [found |-> TRUE, has_segments |-> FALSE, segments |-> <<>>]
RoutesData(segs) == [found |-> TRUE, has_segments |-> TRUE, segments |-> segs]

\* Python's seq[:n], n of either sign.
Slice(seq, n) ==
    IF n >= 0 THEN SubSeq(seq, 1, Min(n, Len(seq)))
    ELSE SubSeq(seq, 1, IF Len(seq) + n > 0 THEN Len(seq) + n ELSE 0)

\* key=lambda x: x.get("duration", float("inf")) : is a's key <= b's key?
DurationLeq(a, b) ==
    b.duration = Absent \/ (a.duration # Absent /\ a.duration <= b.duration)

\* sorted(..., key=duration) is stable: s goes after every element whose key is
\* not larger than its own.
RECURSIVE InsertByDuration(_, _)
InsertByDuration(sorted, s) ==
    IF sorted = <<>> THEN <<s>>
    ELSE IF DurationLeq(Head(sorted), s)
         THEN <<Head(sorted)>> \o InsertByDuration(Tail(sorted), s)
         ELSE <<s>> \o sorted

RECURSIVE SortedByDuration(_)
SortedByDuration(segs) ==
    IF segs = <<>> THEN <<>>
    ELSE InsertByDuration(SortedByDuration(SubSeq(segs, 1, Len(segs) - 1)), segs[Len(segs)])

\* [x for x in seq if Keep(x)]
RECURSIVE SelectKind(_, _)
SelectKind(seq, kind) ==
    IF seq = <<>> THEN <<>>
    ELSE IF Head(seq).transport_type = kind
         THEN <<Head(seq)>> \o SelectKind(Tail(seq), kind)
         ELSE SelectKind(Tail(seq), kind)

RECURSIVE NotIn(_, _)
NotIn(seq, chosen) ==
    IF seq = <<>> THEN <<>>
    ELSE IF Head(seq) \in SetOf(chosen)
         THEN NotIn(Tail(seq), chosen)
         ELSE <<Head(seq)>> \o NotIn(Tail(seq), chosen)

\* Lines 90-96: keep the segments whose kind the mapping selects.
RECURSIVE FilterSelected(_, _)
FilterSelected(seq, pref) ==
    IF seq = <<>> THEN <<>>
    ELSE IF Head(seq).transport_type \in DOMAIN pref /\ pref[Head(seq).transport_type] = 1
         THEN <<Head(seq)>> \o FilterSelected(Tail(seq), pref)
         ELSE FilterSelected(Tail(seq), pref)

_filter_routes_by_prefered_transport(routes_data, pref) ==
    IF ~routes_data.has_segments THEN routes_data
    ELSE [routes_data EXCEPT !.segments = FilterSelected(routes_data.segments, pref)]

\* Mutant: the filter is applied whenever a mapping is given.
FiltersAlways(pref) == DOMAIN pref # {}

\* Line 71: a mapping that is not None, not empty and not all zeros.
Filters(pref) == DOMAIN pref # {} /\ ~(\A k \in DOMAIN pref : pref[k] = 0)

\* get_routes, from the answer of the external service on; a mapping with an
\* empty domain stands for None and for {}.
get_routes(answer, pref) ==
    IF ~answer.found THEN answer
    ELSE IF Filters(pref) THEN _filter_routes_by_prefered_transport(answer, pref)
    ELSE answer

\* Lines 119-122: the first segment of every non-empty group, the groups taken
\* in the order `kinds`.
RECURSIVE FastestOfEachKind(_, _)
FastestOfEachKind(segments, kinds) ==
    IF kinds = <<>> THEN <<>>
    ELSE LET routes == SelectKind(segments, Head(kinds))
         IN  (IF routes # <<>> THEN <<routes[1]>> ELSE <<>>)
             \o FastestOfEachKind(segments, Tail(kinds))

\* Mutant: the segments are grouped in the order the search returned them.
RankInSearchOrder(segs) == segs

\* Line 111
RankOrder(segs) == SortedByDuration(segs)

\* _get_fastest_routes: the lists it can return, one per iteration order of
\* transport_groups.
_get_fastest_routes(routes_data, num_routes) ==
    IF ~routes_data.found \/ ~routes_data.has_segments THEN {<<>>}
    ELSE LET segments == RankOrder(routes_data.segments)
         IN  {LET fastest_routes == FastestOfEachKind(segments, kinds)
                  remaining_slots == num_routes - Len(fastest_routes)
                  additional_routes == Slice(NotIn(segments, fastest_routes), remaining_slots)
              IN  Slice(fastest_routes \o additional_routes, num_routes)
                : kinds \in Orderings(transport_types)}

\* get_aggregated_routes, from the answer of the external service on.
get_aggregated_routes(answer, num_routes, pref) ==
    LET routes_data == get_routes(answer, pref)
    IN  IF routes_data.found THEN _get_fastest_routes(routes_data, num_routes) ELSE {<<>>}

(***************************************************************************)
(* GetRoutesWithStops (Routes/GetRoutesWithStops.py)                       *)
(***************************************************************************)
\* Longest stop list handed to find_multi_leg_route.
MaxStops == 3

\* top_n of _find_best_routes
top_n == 3

\* segment.get(key, 0)
GetOr0(v) == IF v = Absent THEN 0 ELSE v

\* Mutant: the segments are cut to top_n in the order the search returned them.
LegInSearchOrder(segs) == segs

\* Line 42: sorted(segments, key=duration)
LegOrder(segs) == SortedByDuration(segs)

\* _find_best_routes, from the search answer of the leg on: the top_n fastest
\* segments, or <<>> for None (no routes, no "segments" key, no segment).
_find_best_routes(answer) ==
    LET routes_data == get_routes(answer, NoPreference)
    IN  IF ~routes_data.found \/ ~routes_data.has_segments THEN <<>>
        ELSE IF routes_data.segments = <<>> THEN <<>>
        ELSE Slice(LegOrder(routes_data.segments), top_n)

NoItinerary == [found |-> FALSE, route |-> <<>>, total_duration |-> 0, total_distance |-> 0]

\* Mutant: a leg without routes is left out and the loop goes on.
AfterMissingLegGoOn(rest) == rest

\* Lines 61-63: a leg without routes ends the search with None.
AfterMissingLeg(rest) == NoItinerary

\* The loop of lines 59-71 from leg i on; answers[i] is what the search
\* returns for the leg from stops[i] to stops[i + 1].
RECURSIVE ComposeLegs(_, _, _, _)
ComposeLegs(stops, answers, i, acc) ==
    IF i > Len(stops) - 1 THEN acc
    ELSE LET best_routes == _find_best_routes(answers[i])
         IN  IF best_routes = <<>>
             THEN AfterMissingLeg(ComposeLegs(stops, answers, i + 1, acc))
             ELSE ComposeLegs(stops, answers, i + 1,
                    [found |-> TRUE,
                     route |-> Append(acc.route,
                                 [from |-> stops[i], to |-> stops[i + 1], routes |-> best_routes]),
                     total_duration |-> acc.total_duration + GetOr0(best_routes[1].duration),
                     total_distance |-> acc.total_distance + GetOr0(best_routes[1].distance)])

find_multi_leg_route(stops, answers) ==
    ComposeLegs(stops, answers, 1,
                [found |-> TRUE, route |-> <<>>, total_duration |-> 0, total_distance |-> 0])

(***************************************************************************)
(* MessageHandler (message_handler.py)                                     *)
(***************************************************************************)
\* Longest thread handed to process_message.
MaxThreadLen == 2

\* What process_message returns: a MessageResponse, its text given by its
\* purpose, the slots it asks for and the slots it lists as already given, or
\* a ScheduleResponse with its objects.
NoResponse ==
    [kind |-> "none", purpose |-> "", asks |-> <<>>, knows |-> <<>>, objects |-> <<>>]

MessageResponse(purpose, asks, knows) ==
    [kind |-> "message", purpose |-> purpose, asks |-> asks, knows |-> knows, objects |-> <<>>]

ScheduleResponse(objects) ==
    [kind |-> "schedule", purpose |-> "", asks |-> <<>>, knows |-> <<>>, objects |-> objects]

\* A ScheduleObject; its times are counted in seconds from current_timestamp.
ScheduleObject(type, place_start, place_finish, time_start, time_end) ==
    [type |-> type, place_start |-> place_start, place_finish |-> place_finish,
     time_start_utc |-> time_start, time_end_utc |-> time_end]

\* What json.loads makes of a message text: it raises JSONDecodeError
\* ("plain", the empty text included), or gives a dict with or without the
\* key "text", or another JSON value.
JsonForms ==
    {"plain", "object_with_text", "object_without_text", "number", "string", "list", "true",
     "null"}

\* The JSON values that are no dict: they have no attribute `get`.
WithoutGet == {"number", "string", "list", "true", "null"}

\* _get_message_text of a RedisMessage: [empty, text], empty when the string
\* returned is "".  The AttributeError of message_dict.get on a value that is
\* no dict is caught at lines 116-118, which return "".
_get_message_text(message) ==
    IF message.form = "plain" THEN [empty |-> message.empty, text |-> message.text]
    ELSE IF message.form = "object_with_text"
    THEN [empty |-> message.empty, text |-> message.text]
    ELSE IF message.form = "object_without_text" THEN [empty |-> FALSE, text |-> message.text]
    ELSE [empty |-> TRUE, text |-> message.text]

\* known_parts of lines 177-190.
KnownParts(e) ==
    LET k1 == IF Truthy(e.date) THEN <<"date">> ELSE <<>>
        k2 == IF Truthy(e.start_city) THEN Append(k1, "start_city") ELSE k1
        k3 == IF Truthy(e.end_city) THEN Append(k2, "end_city") ELSE k2
    IN  IF TruthyList(e.mid_city) THEN Append(k3, "mid_city") ELSE k3

\* _generate_clarification_message: message_parts are the missing slots in the
\* order date, start_city, end_city; with all three missing the fixed text
\* asks for the three and lists nothing.
_generate_clarification_message(e) ==
    LET missing == get_missing_entities(e)
    IN  IF missing = <<>> THEN MessageResponse("route_found", <<>>, <<>>)
        ELSE IF Len(missing) = 3 THEN MessageResponse("clarification", missing, <<>>)
        ELSE MessageResponse("clarification", missing, KnownParts(e))

\* stops of lines 226-231
Stops(e) ==
    IF TruthyList(e.mid_city)
    THEN <<e.start_city>> \o e.mid_city \o <<e.end_city>>
    ELSE <<e.start_city, e.end_city>>

\* Lines 239-257: one object per leg, bus and train in turn, two hours apart;
\* a leg has no key "duration", so each lasts the default hour.
LegObjects(route) ==
    [i \in 1..Len(route) |->
        ScheduleObject(IF (i - 1) % 2 = 0 THEN "bus" ELSE "train",
                       route[i].from, route[i].to,
                       (i - 1) * 7200, (i - 1) * 7200 + 3600)]

\* Lines 261-275 and 280-296: a direct search that returns something gives one
\* bus object of one hour.
DirectObjects(e, direct_raises, direct_route) ==
    IF ~direct_raises /\ direct_route.found
    THEN <<ScheduleObject("bus", e.start_city, e.end_city, 0, 3600)>>
    ELSE <<>>

\* Lines 301-325: the placeholders returned when nothing was found.
StubObjects(e) ==
    <<ScheduleObject("bus", e.start_city, e.end_city, 0, 3600),
      ScheduleObject("train", e.start_city, e.end_city, 1800, 5400)>>

\* Mutant: the searches are made with the preference of the entities.
HandedPreferenceOfEntities(e) == e.prefered_transport

\* Lines 234, 261 and 282: find_multi_leg_route(stops, api_date_format) and
\* get_routes(start_city, end_city, api_date_format) are given no
\* prefered_transport, so the searches run with the default None.
HandedPreference(e) == NoPreference

\* What find_multi_leg_route gave the handler: NoItinerary when it raised.
\* The searches of the legs answer under the preference handed over.
ItineraryOf(e, legs_raise, answers) ==
    IF legs_raise THEN NoItinerary
    ELSE find_multi_leg_route(Stops(e),
            [i \in DOMAIN answers |-> get_routes(answers[i], HandedPreference(e))])

\* _generate_schedule_response, given what the route service does: whether
\* the multi-leg search raises, the answers to the leg searches, whether the
\* direct search raises and its answer.  The date handed to the service
\* (lines 209-215) does not show in the response.
_generate_schedule_response(e, legs_raise, answers, direct_raises, direct_route) ==
    LET result == ItineraryOf(e, legs_raise, answers)
        schedule_objects ==
            IF result.found THEN LegObjects(result.route)
            ELSE DirectObjects(e, direct_raises, direct_route)
    IN  ScheduleResponse(IF schedule_objects = <<>> THEN StubObjects(e) ELSE schedule_objects)

(***************************************************************************)
(* EntityExtractor.extract_entities on objects: which list, dict and       *)
(* TravelEntities objects a call reads, creates and writes                 *)
(* (extractor.py:33-132, entities.py:16-51)                                *)
(***************************************************************************)
\* The objects: the lists, the dicts and the TravelEntities objects, each
\* kind numbered in the order of creation.  A TravelEntities object holds its
\* strings and the numbers of its mid_city list and prefered_transport dict.
EntityObject(date, start_city, end_city, mid_city, prefered_transport) ==
    [date |-> date, start_city |-> start_city, end_city |-> end_city,
     mid_city |-> mid_city, prefered_transport |-> prefered_transport]

\* The objects when the only one is a TravelEntities object with the values e.
HeapOf(e) ==
    [lists |-> <<e.mid_city>>, dicts |-> <<e.prefered_transport>>,
     objs |-> <<EntityObject(e.date, e.start_city, e.end_city, 1, 1)>>]

\* The values a TravelEntities object holds.
Deref(h, ref) ==
    [date |-> h.objs[ref].date, start_city |-> h.objs[ref].start_city,
     end_city |-> h.objs[ref].end_city,
     mid_city |-> h.lists[h.objs[ref].mid_city],
     prefered_transport |-> h.dicts[h.objs[ref].prefered_transport]]

\* A new list, dict or TravelEntities object: [heap, ref].
NewList(h, v) == [heap |-> [h EXCEPT !.lists = Append(@, v)], ref |-> Len(h.lists) + 1]
NewDict(h, v) == [heap |-> [h EXCEPT !.dicts = Append(@, v)], ref |-> Len(h.dicts) + 1]
NewObject(h, v) == [heap |-> [h EXCEPT !.objs = Append(@, v)], ref |-> Len(h.objs) + 1]

\* Mutant: the dict itself is used, not a copy.
DictItself(h, ref) == [heap |-> h, ref |-> ref]

\* dict.copy() (line 124)
DictCopy(h, ref) == NewDict(h, h.dicts[ref])

\* _extract_transport on objects: the copy of current_transport is written
\* in place (line 130) and returned.
_extract_transport_obj(h, m, current_transport) ==
    LET transport == DictCopy(h, current_transport)
    IN  [heap |-> [transport.heap EXCEPT
                     !.dicts[transport.ref] = _extract_transport(m, @)],
         ref |-> transport.ref]

\* TravelEntities(data) for a non-empty dictionary (entities.py:23-34): the
\* list of data is kept as it is, the preference becomes a new dict.
TravelEntitiesOf(h, date, start_city, end_city, mid_city, prefered_transport) ==
    LET pref == NewDict(h, h.dicts[prefered_transport])
    IN  NewObject(pref.heap, EntityObject(date, start_city, end_city, mid_city, pref.ref))

\* _extract_entities_fallback on objects: [raised, heap, ref].  `extracted`
\* is to_dict() of the argument: a new dictionary that holds the argument's
\* own list and dict (entities.py:45-51).
_extract_entities_fallback_obj(h, m, current_entities, today) ==
    LET extracted == h.objs[current_entities]
        dt == IF ~Truthy(extracted.date) THEN _extract_date(m, today)
              ELSE [raised |-> "none", value |-> extracted.date]
        cities == _extract_cities(m)
    IN  IF dt.raised # "none"
        THEN {[raised |-> dt.raised, heap |-> h, ref |-> current_entities]}
        ELSE {LET mid == IF TruthyList(cities.mid_city)
                         THEN NewList(h, ml)
                         ELSE [heap |-> h, ref |-> extracted.mid_city]
                  transport == _extract_transport_obj(mid.heap, m, extracted.prefered_transport)
                  made == TravelEntitiesOf(transport.heap, dt.value,
                                           FillCity(extracted.start_city, cities.start_city),
                                           FillCity(extracted.end_city, cities.end_city),
                                           mid.ref, transport.ref)
              IN  [raised |-> "none", heap |-> made.heap, ref |-> made.ref]
                : ml \in IF TruthyList(cities.mid_city)
                         THEN Orderings(SetOf(h.lists[extracted.mid_city])
                                        \cup SetOf(cities.mid_city))
                         ELSE {<<>>}}

\* The merge loop of lines 51-66 on objects: new_entities = TravelEntities()
\* has a list and a dict of its own, and setattr gives it the service's list
\* or the argument's own list, and a new merged dict or the argument's own.
MergeExtractedObj(h, current_entities, d) ==
    LET cur == h.objs[current_entities]
        own_list == NewList(h, <<>>)
        own_dict == NewDict(own_list.heap, DEFAULT_PREFERED_TRANSPORT)
        takes_list == "mid_city" \in d.present
                        /\ (TruthyList(d.mid_city) \/ ~TruthyList(h.lists[cur.mid_city]))
        mid == IF takes_list THEN NewList(own_dict.heap, d.mid_city)
               ELSE [heap |-> own_dict.heap, ref |-> cur.mid_city]
        pref == IF "prefered_transport" \in d.present
                THEN NewDict(mid.heap, MergePref(h.dicts[cur.prefered_transport], d))
                ELSE [heap |-> mid.heap, ref |-> cur.prefered_transport]
    IN  NewObject(pref.heap,
                  EntityObject(MergeSlot(cur.date, d, "date"),
                               MergeSlot(cur.start_city, d, "start_city"),
                               MergeSlot(cur.end_city, d, "end_city"),
                               mid.ref, pref.ref))

\* extract_entities on objects: the outcomes [raised, heap, ref] of a call
\* whose client call ended as `o`.
extract_entities_obj(h, m, current_entities, o, today) ==
    IF CaughtByExtractor(o.kind)
    THEN _extract_entities_fallback_obj(h, m, current_entities, today)
    ELSE IF o.kind = "dict"
    THEN {LET made == MergeExtractedObj(h, current_entities, o.d)
          IN  [raised |-> "none", heap |-> made.heap, ref |-> made.ref]}
    ELSE IF o.kind = "list"
    THEN {LET made == MergeExtractedObj(h, current_entities, NoDict)
          IN  [raised |-> "none", heap |-> made.heap, ref |-> made.ref]}
    ELSE {[raised |-> IF o.kind = "APIError" THEN "APIError" ELSE "TypeError",
           heap |-> h, ref |-> current_entities]}

(***************************************************************************)
(* process_user_request (router.py)                                        *)
(***************************************************************************)
\* str(user_request.id) of the sessions, and the requests each one sends.
Sessions == {"session-1", "session-2"}
MaxRequests == 2
RequestTexts == {"from Moscow", "to Tver"}

\* The key of the lrange of line 31.
HistoryKey == "messages"

\* The keys the handler reads (line 31) and pushes to (line 35).
RedisKeys == Sessions \cup {HistoryKey}

\* RedisMessage(role=..., state="Уточняем", text=...): the model has the
\* fields role and text, and what else it is given is dropped.
RedisMessage(role, text) == [role |-> role, text |-> text]

\* message.json() and RedisMessage.parse_raw(msg)
Json(m) == <<"{", "role", m.role, "text", m.text, "}">>
parse_raw(msg) == [role |-> msg[3], text |-> msg[5]]

ParseAll(raw) == [i \in DOMAIN raw |-> parse_raw(raw[i])]

NoRequest ==
    [pc |-> "idle", text |-> "", previous_messages |-> <<>>, thread |-> <<>>, raised |-> "none",
     sent |-> 0]

\* No extract_entities call on objects.
NoObjects == [op |-> "none"]

\* An empty Redis and no request in progress.
RouterInit ==
    /\ redis_client = [k \in RedisKeys |-> <<>>]
    /\ request = [s \in Sessions |-> NoRequest]

\* Lines 27-29: a request of session s arrives, after the answer to the
\* session's request before.
ReceiveRequest(s, text) ==
    /\ request[s].pc \in {"idle", "raised"}
    /\ request[s].sent < MaxRequests
    /\ request' = [request EXCEPT ![s] = [pc |-> "l31", text |-> text,
                                          previous_messages |-> <<>>, thread |-> <<>>,
                                          raised |-> "none", sent |-> request[s].sent + 1]]
    /\ UNCHANGED <<entities, objVars, limVars, cliVars, appVars, redis_client>>

\* Lines 31-32: await lrange("messages", 0, -1), and parse_raw of every item.
ReadHistory(s) ==
    /\ request[s].pc = "l31"
    /\ request' = [request EXCEPT ![s].previous_messages = ParseAll(redis_client[HistoryKey]),
                                  ![s].pc = "l35"]
    /\ UNCHANGED <<entities, objVars, limVars, cliVars, appVars, redis_client>>

\* Lines 34-35: await rpush(session_id, message.json())
PushUserMessage(s) ==
    /\ request[s].pc = "l35"
    /\ redis_client' = [redis_client EXCEPT
                          ![s] = Append(@, Json(RedisMessage("user", request[s].text)))]
    /\ request' = [request EXCEPT ![s].pc = "l37"]
    /\ UNCHANGED <<entities, objVars, limVars, cliVars, appVars>>

\* Line 37: talk_with_god(text, previous_messages) hands the history to
\* MessageHandler.process_message together with the text (ai_starter.py:222);
\* process_message takes the thread alone, so the call raises TypeError and
\* lines 38-42 are not reached.
TalkWithGod(s) ==
    /\ request[s].pc = "l37"
    /\ request' = [request EXCEPT ![s].thread = request[s].previous_messages,
                                  ![s].raised = "TypeError",
                                  ![s].pc = "raised"]
    /\ UNCHANGED <<entities, objVars, limVars, cliVars, appVars, redis_client>>

(***************************************************************************)
(* Specification Spec: one TravelEntities object under update()            *)
(***************************************************************************)
\* No call of the handler, the ranker, the composer or the date extractor yet.
NoCallYet == [op |-> "none"]

AppInit ==
    /\ turn = NoCallYet
    /\ ranking = NoCallYet
    /\ journey = NoCallYet
    /\ date_call = NoCallYet

Init ==
    /\ entities = EmptyEntities
    /\ LimiterInitWith(1)
    /\ ClientInit
    /\ RouterInit
    /\ extraction = NoObjects
    /\ AppInit

Update(d) ==
    /\ entities' \in UpdateResults(entities, d)
    /\ UNCHANGED <<webVars, objVars, limVars, cliVars, appVars>>

Next == \E d \in RawDicts : Update(d)

vars == <<entities, limVars, cliVars, appVars, webVars, objVars>>

Spec == Init /\ [][Next]_vars

(***************************************************************************)
(* Specification ExtractSpec: the fold step                                *)
(*     entities = self.entity_extractor.extract_entities(text, entities)   *)
(* of message_handler.py:136; a call that raises leaves the fold variable  *)
(* as it was.                                                              *)
(***************************************************************************)
ExtractEntities(m, o, today) ==
    /\ \E r \in extract_entities(m, entities, o, today) :
            entities' = IF r.raised = "none" THEN r.value ELSE entities
    /\ UNCHANGED <<webVars, objVars, limVars, cliVars, appVars>>

\* The current dates that make a difference to the fallback: it reads the
\* clock only when the date is unknown and the message has no numeric date
\* (extractor.py:83-84, 148-154).
DaysThatMatter(m, cur) ==
    IF Truthy(cur.date) \/ date_match(m.numdate).found THEN {AnyToday} ELSE Todays

ExtractNext ==
    \/ \E d \in RawDicts : ExtractEntities(NoMessage, [kind |-> "dict", d |-> d], AnyToday)
    \/ \E k \in {"list", "scalar"} : ExtractEntities(NoMessage, [kind |-> k, d |-> NoDict], AnyToday)
    \/ \E m \in Messages : \E today \in DaysThatMatter(m, entities) :
            ExtractEntities(m, [kind |-> "APIError", d |-> NoDict], today)

ExtractSpec == Init /\ [][ExtractNext]_vars

(***************************************************************************)
(* Specification LimiterSpec: threads calling acquire() on one RateLimiter *)
(***************************************************************************)
LimiterInit ==
    /\ entities = EmptyEntities
    /\ \E r \in MaxRpsValues : LimiterInitWith(r)
    /\ ClientInit
    /\ RouterInit
    /\ extraction = NoObjects
    /\ AppInit

LimiterNext ==
    \/ \E t \in Threads : CallAcquire(t)
    \/ \E t \in Threads : EnterLock(t)
    \/ \E t \in Threads : ReadClock(t)
    \/ \E t \in Threads : RefillTokens(t)
    \/ \E t \in Threads : TestShort(t)
    \/ \E t \in Threads : TestEnough(t)
    \/ \E t \in Threads : Sleep(t)
    \/ \E t \in Threads : ReturnWaited(t)
    \/ \E t \in Threads : ReturnAtOnce(t)
    \/ Tick

LimiterSpec == LimiterInit /\ [][LimiterNext]_vars

\* The scheduler runs every thread that can take a step, and the lock is
\* granted fairly: a caller that finds it free again and again gets it.
LimiterFairSpec ==
    /\ LimiterSpec
    /\ \A t \in Threads : WF_vars(AcquireStep(t))
    /\ \A t \in Threads : SF_vars(EnterLock(t))

(***************************************************************************)
(* Specification ClientSpec: every thread constructs a MistralAIClient and *)
(* calls its extract_entities                                              *)
(***************************************************************************)
ClientNext ==
    \/ \E t \in Threads, c \in ClientKinds : Construct(t, c)
    \/ \E t \in Threads : CtorEnterLock(t)
    \/ \E t \in Threads : CtorTestNone(t)
    \/ \E t \in Threads : CtorCreateLimiter(t)
    \/ \E t \in Threads : CtorReturn(t)
    \/ \E t \in Threads : CallExtract(t)
    \/ \E t \in Threads : CheckKey(t)
    \/ \E t \in Threads : AcquireLimiter(t)
    \/ \E t \in Threads, a \in SdkAnswers \cup RestAnswers : FirstRequest(t, a)
    \/ \E t \in Threads : ThrottleSleep(t)
    \/ \E t \in Threads, a \in SdkAnswers \cup RestAnswers : RetryRequest(t, a)
    \/ \E t \in Threads : EndCall(t)

ClientSpec == Init /\ [][ClientNext]_vars

(***************************************************************************)
(* Specification RankSpec: one call of the ranker, alone or behind         *)
(* get_aggregated_routes                                                   *)
(***************************************************************************)
\* num_routes of get_aggregated_routes when the caller gives none (get_routes.py:38)
DefaultNumRoutes == 4

\* The mappings handed to get_aggregated_routes: none, one key, or all three.
RankPreferences ==
    {pref \in PrefMaps : Cardinality(DOMAIN pref) \in {0, 1, Cardinality(TransportKinds)}}

SearchAnswers == {NoRoutes, NoSegmentsKey} \cup {RoutesData(segs) : segs \in SegmentLists}

\* The calls made: their arguments, with the result still to come.
RankCalls ==
    {[op |-> "_get_fastest_routes", answer |-> RoutesData(segs), num_routes |-> n,
      prefered_transport |-> NoPreference, returned |-> FALSE, result |-> <<>>] :
        segs \in SegmentLists, n \in 0..MaxNumRoutes}
    \cup
    {[op |-> "get_aggregated_routes", answer |-> answer, num_routes |-> DefaultNumRoutes,
      prefered_transport |-> pref, returned |-> FALSE, result |-> <<>>] :
        answer \in SearchAnswers, pref \in RankPreferences}

RankInit ==
    /\ entities = EmptyEntities
    /\ LimiterInitWith(1)
    /\ ClientInit
    /\ RouterInit
    /\ extraction = NoObjects
    /\ turn = NoCallYet /\ journey = NoCallYet /\ date_call = NoCallYet
    /\ ranking \in RankCalls

\* _get_fastest_routes(routes_data, num_routes) on a search answer
GetFastestRoutes ==
    /\ ranking.op = "_get_fastest_routes" /\ ~ranking.returned
    /\ \E r \in _get_fastest_routes(ranking.answer, ranking.num_routes) :
          ranking' = [ranking EXCEPT !.returned = TRUE, !.result = r]
    /\ UNCHANGED <<entities, webVars, objVars, limVars, cliVars, turn, journey, date_call>>

\* get_aggregated_routes(from_city, to_city, date, num_routes, prefered_transport)
GetAggregatedRoutes ==
    /\ ranking.op = "get_aggregated_routes" /\ ~ranking.returned
    /\ \E r \in get_aggregated_routes(ranking.answer, ranking.num_routes,
                                      ranking.prefered_transport) :
          ranking' = [ranking EXCEPT !.returned = TRUE, !.result = r]
    /\ UNCHANGED <<entities, webVars, objVars, limVars, cliVars, turn, journey, date_call>>

RankNext ==
    \/ GetFastestRoutes
    \/ GetAggregatedRoutes

RankSpec == RankInit /\ [][RankNext]_vars

(***************************************************************************)
(* Specification MultiLegSpec: one call of find_multi_leg_route            *)
(***************************************************************************)
\* Segments of a leg's search answer: a slow one with a distance, a fast one
\* without the key "distance".
LegSegments ==
    {[transport_type |-> "train", duration |-> 20, distance |-> 5],
     [transport_type |-> "bus", duration |-> 10, distance |-> Absent]}

\* Short answers in every order, and answers of one segment more than
\* _find_best_routes keeps whose first segment is not the fastest.
LegSegmentLists ==
    UNION {[1..n -> LegSegments] : n \in 0..2}
    \cup {segs \in [1..(top_n + 1) -> LegSegments] : segs[1].transport_type = "train"}

LegAnswers == {NoRoutes, NoSegmentsKey} \cup {RoutesData(segs) : segs \in LegSegmentLists}

\* Stop lists of two to MaxStops cities, no leg from a city to itself.
StopLists ==
    {stops \in UNION {[1..n -> Cities] : n \in 2..MaxStops} :
        \A i \in 1..(Len(stops) - 1) : stops[i] # stops[i + 1]}

JourneyCalls ==
    UNION {{[op |-> "find_multi_leg_route", stops |-> stops, answers |-> answers,
             returned |-> FALSE, result |-> NoItinerary] :
               stops \in {st \in StopLists : Len(st) = n}, answers \in [1..(n - 1) -> LegAnswers]}
           : n \in 2..MaxStops}

MultiLegInit ==
    /\ entities = EmptyEntities
    /\ LimiterInitWith(1)
    /\ ClientInit
    /\ RouterInit
    /\ extraction = NoObjects
    /\ turn = NoCallYet /\ ranking = NoCallYet /\ date_call = NoCallYet
    /\ journey \in JourneyCalls

\* find_multi_leg_route(stops, date)
FindMultiLegRoute ==
    /\ journey.op = "find_multi_leg_route" /\ ~journey.returned
    /\ journey' = [journey EXCEPT !.returned = TRUE,
                                  !.result = find_multi_leg_route(journey.stops, journey.answers)]
    /\ UNCHANGED <<entities, webVars, objVars, limVars, cliVars, turn, ranking, date_call>>

MultiLegNext == FindMultiLegRoute

MultiLegSpec == MultiLegInit /\ [][MultiLegNext]_vars

(***************************************************************************)
(* Specification HandlerSpec: one call of process_message.  The variable   *)
(* entities is the local `entities` of _extract_entities_from_thread.      *)
(***************************************************************************)
\* A message of the thread: whether _get_message_text gives "" for it, what
\* its text holds, and what the extraction service does when asked about it.
TurnMessage(empty, text, kind, d) ==
    [form |-> "plain", empty |-> empty, text |-> text, answer |-> [kind |-> kind, d |-> d]]

\* A message whose text is JSON of the given form; for an object with the key
\* "text", text and empty tell of the value of that key.
JsonMessage(form, empty, text, kind, d) ==
    [form |-> form, empty |-> empty, text |-> text, answer |-> [kind |-> kind, d |-> d]]

TextOf(numdate, start_city, end_city) ==
    [numdate |-> numdate, word |-> "", start_city |-> start_city, end_city |-> end_city,
     mid_city |-> <<>>, transport |-> {}]

DictOf(present, date, start_city, end_city, mid_city) ==
    [present |-> present, date |-> date, start_city |-> start_city, end_city |-> end_city,
     mid_city |-> mid_city, prefered_transport |-> NoPreference]

\* An empty text; "from Moscow" and "1-5-25 to Tver" read by the fallback; a
\* start city with a waypoint and a date with a destination given by the
\* service; a JSON number given by the service; "by bus" read by the
\* fallback and a waypoint alone given by the service; "1-5-25 from Moscow to
\* Tver by bus" read by the fallback; the text 2025, which is a JSON number,
\* and the text {"text": "from Moscow"}.
TurnMessages ==
    {TurnMessage(TRUE, NoMessage, "APIError", NoDict),
     TurnMessage(FALSE, TextOf(NoDateText, "Moscow", ""), "APIError", NoDict),
     TurnMessage(FALSE, TextOf(DateText(<<1>>, "-", <<5>>, "-", <<2, 5>>), "", "Tver"),
                 "APIError", NoDict),
     TurnMessage(FALSE, NoMessage, "dict",
                 DictOf({"start_city", "mid_city"}, "", "Moscow", "", <<"Tver">>)),
     TurnMessage(FALSE, NoMessage, "dict",
                 DictOf({"date", "end_city"}, "01.05.2025", "", "Moscow", <<>>)),
     TurnMessage(FALSE, NoMessage, "scalar", NoDict),
     TurnMessage(FALSE, [TextOf(NoDateText, "", "") EXCEPT !.transport = {"bus"}],
                 "APIError", NoDict),
     TurnMessage(FALSE, NoMessage, "dict", DictOf({"mid_city"}, "", "", "", <<"Tver">>)),
     TurnMessage(FALSE, [TextOf(DateText(<<1>>, "-", <<5>>, "-", <<2, 5>>), "Moscow", "Tver")
                            EXCEPT !.transport = {"bus"}],
                 "APIError", NoDict),
     JsonMessage("number", FALSE, NoMessage, "APIError", NoDict),
     JsonMessage("object_with_text", FALSE, TextOf(NoDateText, "Moscow", ""), "APIError", NoDict)}

TurnThreads == UNION {[1..n -> TurnMessages] : n \in 0..MaxThreadLen}

\* What a search of the route service returns to the handler.
TurnRouteAnswers ==
    {NoRoutes, RoutesData(<<>>),
     RoutesData(<<[transport_type |-> "train", duration |-> 20, distance |-> 5]>>)}

\* What the route service did during a turn: nothing asked yet.
NoRouteAnswers ==
    [legs_raise |-> FALSE, answers |-> <<>>, direct_raises |-> FALSE, direct_route |-> NoRoutes]

TurnCalls ==
    {[op |-> "process_message", thread |-> thread, today |-> today, pc |-> "called", i |-> 0,
      invoked |-> <<>>, raised |-> "none", route_service |-> NoRouteAnswers,
      itinerary |-> NoItinerary, response |-> NoResponse] :
        thread \in TurnThreads, today \in Todays}

HandlerInit ==
    /\ entities = EmptyEntities
    /\ LimiterInitWith(1)
    /\ ClientInit
    /\ RouterInit
    /\ extraction = NoObjects
    /\ ranking = NoCallYet /\ journey = NoCallYet /\ date_call = NoCallYet
    /\ turn \in TurnCalls

\* Lines 73-74
ReturnOnEmptyThread ==
    /\ turn.op = "process_message" /\ turn.pc = "called"
    /\ turn.thread = <<>>
    /\ turn' = [turn EXCEPT !.pc = "returned",
                            !.response = MessageResponse("enter_message", <<>>, <<>>)]
    /\ UNCHANGED <<entities, webVars, objVars, limVars, cliVars, ranking, journey, date_call>>

\* Lines 77-80 and 130: the fold starts from TravelEntities().
StartFold ==
    /\ turn.op = "process_message" /\ turn.pc = "called"
    /\ turn.thread # <<>>
    /\ entities' = EmptyEntities
    /\ turn' = [turn EXCEPT !.pc = "fold", !.i = 1]
    /\ UNCHANGED <<webVars, objVars, limVars, cliVars, ranking, journey, date_call>>

\* Lines 132-134: a message whose text is empty is passed over.
SkipEmptyText ==
    /\ turn.op = "process_message" /\ turn.pc = "fold"
    /\ turn.i <= Len(turn.thread)
    /\ _get_message_text(turn.thread[turn.i]).empty
    /\ turn' = [turn EXCEPT !.i = @ + 1]
    /\ UNCHANGED <<entities, webVars, objVars, limVars, cliVars, ranking, journey, date_call>>

\* Lines 132-136: extract_entities(message_text, entities); what it raises
\* leaves _extract_entities_from_thread and process_message.
ExtractFromMessage ==
    /\ turn.op = "process_message" /\ turn.pc = "fold"
    /\ turn.i <= Len(turn.thread)
    /\ ~_get_message_text(turn.thread[turn.i]).empty
    /\ \E r \in extract_entities(_get_message_text(turn.thread[turn.i]).text, entities,
                                 turn.thread[turn.i].answer, turn.today) :
          /\ entities' = IF r.raised = "none" THEN r.value ELSE entities
          /\ turn' = [turn EXCEPT
                        !.invoked = Append(@, [message |-> turn.i,
                                               text |-> _get_message_text(turn.thread[turn.i]).text,
                                               passed |-> entities,
                                               raised |-> r.raised, returned |-> r.value]),
                        !.i = IF r.raised = "none" THEN @ + 1 ELSE @,
                        !.pc = IF r.raised = "none" THEN @ ELSE "raised",
                        !.raised = r.raised]
    /\ UNCHANGED <<webVars, objVars, limVars, cliVars, ranking, journey, date_call>>

\* Lines 83, 86-89
Clarify ==
    /\ turn.op = "process_message" /\ turn.pc = "fold"
    /\ turn.i > Len(turn.thread)
    /\ ~is_complete(entities)
    /\ turn' = [turn EXCEPT !.pc = "returned",
                            !.response = _generate_clarification_message(entities)]
    /\ UNCHANGED <<entities, webVars, objVars, limVars, cliVars, ranking, journey, date_call>>

\* Lines 83-85
Schedule ==
    /\ turn.op = "process_message" /\ turn.pc = "fold"
    /\ turn.i > Len(turn.thread)
    /\ is_complete(entities)
    /\ \E legs_raise \in BOOLEAN, direct_raises \in BOOLEAN, direct_route \in TurnRouteAnswers,
          answers \in [1..(Len(Stops(entities)) - 1) -> TurnRouteAnswers] :
          turn' = [turn EXCEPT
                     !.pc = "returned",
                     !.raised = IF legs_raise \/ direct_raises THEN "RouteError" ELSE "none",
                     !.route_service = [legs_raise |-> legs_raise, answers |-> answers,
                                        direct_raises |-> direct_raises,
                                        direct_route |-> direct_route],
                     !.itinerary = ItineraryOf(entities, legs_raise, answers),
                     !.response = _generate_schedule_response(entities, legs_raise, answers,
                                                              direct_raises, direct_route)]
    /\ UNCHANGED <<entities, webVars, objVars, limVars, cliVars, ranking, journey, date_call>>

HandlerNext ==
    \/ ReturnOnEmptyThread
    \/ StartFold
    \/ SkipEmptyText
    \/ ExtractFromMessage
    \/ Clarify
    \/ Schedule

HandlerSpec == HandlerInit /\ [][HandlerNext]_vars

(***************************************************************************)
(* Specification DateSpec: one call of EntityExtractor._extract_date       *)
(***************************************************************************)
\* Digit groups of the texts: one to four digits, in and out of range.
DateGroups ==
    {<<1>>, <<5>>, <<0, 1>>, <<0, 5>>, <<1, 3>>, <<2, 5>>, <<3, 2>>, <<2, 0, 2>>,
     <<2, 0, 2, 5>>, <<1, 9, 9, 9>>}

\* Texts with three digit groups, and texts with a date word or nothing.
DateMessages ==
    {[numdate |-> DateText(g1, s1, g2, s2, g3), word |-> "", start_city |-> "",
      end_city |-> "", mid_city |-> <<>>, transport |-> {}] :
        g1 \in DateGroups, g2 \in DateGroups, g3 \in DateGroups,
        s1 \in Separators, s2 \in Separators}
    \cup
    {[numdate |-> NoDateText, word |-> w, start_city |-> "", end_city |-> "",
      mid_city |-> <<>>, transport |-> {}] : w \in SetOf(DateWords) \cup {""}}

DateCalls ==
    {[op |-> "_extract_date", message |-> m, today |-> today, returned |-> FALSE,
      result |-> [raised |-> "none", value |-> ""]] : m \in DateMessages, today \in Todays}

DateInit ==
    /\ entities = EmptyEntities
    /\ LimiterInitWith(1)
    /\ ClientInit
    /\ RouterInit
    /\ extraction = NoObjects
    /\ turn = NoCallYet /\ ranking = NoCallYet /\ journey = NoCallYet
    /\ date_call \in DateCalls

\* _extract_date(message)
ExtractDate ==
    /\ date_call.op = "_extract_date" /\ ~date_call.returned
    /\ date_call' = [date_call EXCEPT !.returned = TRUE,
                                      !.result = _extract_date(date_call.message, date_call.today)]
    /\ UNCHANGED <<entities, webVars, objVars, limVars, cliVars, turn, ranking, journey>>

DateNext == ExtractDate

DateSpec == DateInit /\ [][DateNext]_vars

(***************************************************************************)
(* Specification ServiceSpec: one call of the function get_routes of       *)
(* service/get_routes.py                                                   *)
(***************************************************************************)
\* The names the module binds (lines 1-12); GetRoutes and GetRoutesWithStops
\* are used in the function and imported nowhere.
ServiceModuleNames ==
    {"logging", "datetime", "List", "Optional", "Dict", "ScheduleResponse", "ScheduleObject",
     "TransportType", "logger"}

NoValue == [raised |-> "none", value |-> "None"]

\* The try body of lines 29-94: what it raises or returns.  `search` is what
\* the route classes would do with the request.
ServiceTryBody(points, search) ==
    LET finder == IF Len(points) = 2 THEN "GetRoutes" ELSE "GetRoutesWithStops"
    IN  IF finder \notin ServiceModuleNames THEN [raised |-> "NameError", value |-> "None"]
        ELSE IF search = "raises" THEN [raised |-> "Exception", value |-> "None"]
        ELSE IF search = "nothing" THEN NoValue
        ELSE [raised |-> "none", value |-> "ScheduleResponse"]

\* Lines 96-98: whatever the try body raises is logged and None is returned.
ServiceExcept(body) == IF body.raised # "none" THEN NoValue ELSE body

\* get_routes(points, date, prefered_transport) of service/get_routes.py
get_routes_service(points, search) ==
    IF Len(points) < 2 THEN [raised |-> "ValueError", value |-> "None"]
    ELSE ServiceExcept(ServiceTryBody(points, search))

ServiceDates == {"2025-03-20", "not a date"}
ValidDate(date) == date = "2025-03-20"

ServiceCalls ==
    {[op |-> "get_routes", points |-> points, date |-> date, prefered_transport |-> pref,
      search |-> search, returned |-> FALSE, result |-> NoValue] :
        points \in UNION {[1..n -> Cities] : n \in 1..MaxStops},
        date \in ServiceDates, pref \in RankPreferences,
        search \in {"raises", "nothing", "routes"}}

ServiceInit ==
    /\ entities = EmptyEntities
    /\ LimiterInitWith(1)
    /\ ClientInit
    /\ RouterInit
    /\ extraction = NoObjects
    /\ turn = NoCallYet /\ ranking = NoCallYet /\ date_call = NoCallYet
    /\ journey \in {j \in ServiceCalls : ValidDate(j.date) \/ j.search # "routes"}

GetRoutesService ==
    /\ journey.op = "get_routes" /\ ~journey.returned
    /\ journey' = [journey EXCEPT !.returned = TRUE,
                                  !.result = get_routes_service(journey.points, journey.search)]
    /\ UNCHANGED <<entities, webVars, objVars, limVars, cliVars, turn, ranking, date_call>>

ServiceNext == GetRoutesService

ServiceSpec == ServiceInit /\ [][ServiceNext]_vars

(***************************************************************************)
(* Specification SearchSpec: one call of GetRoutes.get_routes, request by  *)
(* request.  The variable ranking holds the call.                          *)
(***************************************************************************)
\* What requests.get and raise_for_status do with a request: it succeeds, or
\* a RequestException is raised (no connection, timeout, HTTP error status).
RequestOutcomes == {"ok", "ConnectionError", "Timeout", "HTTPError"}

NoCode == "None"

\* _get_station_code: the code of the city when the directory request
\* succeeds and its answer has a settlement of that title, None otherwise.
_get_station_code(in_directory, outcome) ==
    IF outcome = "ok" /\ in_directory THEN "yandex_code" ELSE NoCode

\* Mutant: the search goes on when one of the codes is there.
EitherCodeResolved(from_code, to_code) == from_code # NoCode \/ to_code # NoCode

\* Line 58: `not from_code or not to_code` is false.
BothCodesResolved(from_code, to_code) == from_code # NoCode /\ to_code # NoCode

\* The bodies a successful search request returns.
SearchBodies == SearchAnswers \ {NoRoutes}

SearchCalls ==
    {[op |-> "get_routes", from_in_directory |-> f, to_in_directory |-> t,
      prefered_transport |-> pref, pc |-> "l56", from_code |-> NoCode, to_code |-> NoCode,
      requests |-> <<>>, returned |-> FALSE, result |-> NoRoutes] :
        f \in BOOLEAN, t \in BOOLEAN, pref \in RankPreferences}

SearchInit ==
    /\ entities = EmptyEntities
    /\ LimiterInitWith(1)
    /\ ClientInit
    /\ RouterInit
    /\ extraction = NoObjects
    /\ turn = NoCallYet /\ journey = NoCallYet /\ date_call = NoCallYet
    /\ ranking \in SearchCalls

\* Line 56: from_code = self._get_station_code(from_city, lang)
ResolveFromCity ==
    /\ ranking.op = "get_routes" /\ ranking.pc = "l56"
    /\ \E outcome \in RequestOutcomes :
          ranking' = [ranking EXCEPT
                        !.requests = Append(@, [endpoint |-> "stations_list", city |-> "from",
                                                outcome |-> outcome]),
                        !.from_code = _get_station_code(ranking.from_in_directory, outcome),
                        !.pc = "l57"]
    /\ UNCHANGED <<entities, webVars, objVars, limVars, cliVars, turn, journey, date_call>>

\* Line 57: to_code = self._get_station_code(to_city, lang)
ResolveToCity ==
    /\ ranking.op = "get_routes" /\ ranking.pc = "l57"
    /\ \E outcome \in RequestOutcomes :
          ranking' = [ranking EXCEPT
                        !.requests = Append(@, [endpoint |-> "stations_list", city |-> "to",
                                                outcome |-> outcome]),
                        !.to_code = _get_station_code(ranking.to_in_directory, outcome),
                        !.pc = "l58"]
    /\ UNCHANGED <<entities, webVars, objVars, limVars, cliVars, turn, journey, date_call>>

\* Lines 58-60: without both codes the call returns None.
ReturnWithoutCodes ==
    /\ ranking.op = "get_routes" /\ ranking.pc = "l58"
    /\ ~BothCodesResolved(ranking.from_code, ranking.to_code)
    /\ ranking' = [ranking EXCEPT !.pc = "done", !.returned = TRUE, !.result = NoRoutes]
    /\ UNCHANGED <<entities, webVars, objVars, limVars, cliVars, turn, journey, date_call>>

\* Lines 62-77: the search request; its body goes through the preference
\* filter, a RequestException makes the call return None.
SearchRoutes ==
    /\ ranking.op = "get_routes" /\ ranking.pc = "l58"
    /\ BothCodesResolved(ranking.from_code, ranking.to_code)
    /\ \/ \E body \in SearchBodies :
             ranking' = [ranking EXCEPT
                           !.requests = Append(@, [endpoint |-> "search", city |-> "",
                                                   outcome |-> "ok"]),
                           !.pc = "done", !.returned = TRUE,
                           !.result = get_routes(body, ranking.prefered_transport)]
       \/ \E outcome \in RequestOutcomes \ {"ok"} :
             ranking' = [ranking EXCEPT
                           !.requests = Append(@, [endpoint |-> "search", city |-> "",
                                                   outcome |-> outcome]),
                           !.pc = "done", !.returned = TRUE,
                           !.result = get_routes(NoRoutes, ranking.prefered_transport)]
    /\ UNCHANGED <<entities, webVars, objVars, limVars, cliVars, turn, journey, date_call>>

SearchNext ==
    \/ ResolveFromCity
    \/ ResolveToCity
    \/ ReturnWithoutCodes
    \/ SearchRoutes

SearchSpec == SearchInit /\ [][SearchNext]_vars

(***************************************************************************)
(* Specification RouterSpec: requests of several sessions to               *)
(* process_user_request; the handlers interleave at every await            *)
(***************************************************************************)
RouterNext ==
    \/ \E s \in Sessions, text \in RequestTexts : ReceiveRequest(s, text)
    \/ \E s \in Sessions : ReadHistory(s)
    \/ \E s \in Sessions : PushUserMessage(s)
    \/ \E s \in Sessions : TalkWithGod(s)

RouterSpec == Init /\ [][RouterNext]_vars

(***************************************************************************)
(* Specification ObjectSpec: one call of extract_entities, with the        *)
(* objects it is given and the objects there are when it ends              *)
(***************************************************************************)
\* The TravelEntities the call is given: nothing known, a start city with a
\* waypoint and a preference, and a complete query.
GivenEntities ==
    {EmptyEntities,
     [EmptyEntities EXCEPT !.start_city = "Moscow", !.mid_city = <<"Tver">>,
                           !.prefered_transport = [DEFAULT_PREFERED_TRANSPORT EXCEPT !["train"] = 1]],
     [EmptyEntities EXCEPT !.date = "01.05.2025", !.start_city = "Moscow", !.end_city = "Tver"]}

ObjectCalls ==
    {[op |-> "extract_entities", heap |-> HeapOf(e), current_entities |-> 1, message |-> NoMessage,
      answer |-> [kind |-> "dict", d |-> d], today |-> AnyToday, returned |-> FALSE,
      raised |-> "none", after |-> HeapOf(e), result |-> 1] : e \in GivenEntities, d \in RawDicts}
    \cup
    {[op |-> "extract_entities", heap |-> HeapOf(e), current_entities |-> 1, message |-> NoMessage,
      answer |-> [kind |-> k, d |-> NoDict], today |-> AnyToday, returned |-> FALSE,
      raised |-> "none", after |-> HeapOf(e), result |-> 1] :
        e \in GivenEntities, k \in {"list", "scalar"}}
    \cup
    {[op |-> "extract_entities", heap |-> HeapOf(e), current_entities |-> 1, message |-> m,
      answer |-> [kind |-> "APIError", d |-> NoDict], today |-> today, returned |-> FALSE,
      raised |-> "none", after |-> HeapOf(e), result |-> 1] :
        e \in GivenEntities, m \in Messages, today \in Todays}

ObjectInit ==
    /\ entities = EmptyEntities
    /\ LimiterInitWith(1)
    /\ ClientInit
    /\ RouterInit
    /\ AppInit
    /\ extraction \in ObjectCalls

\* extract_entities(message, current_entities)
ExtractOnObjects ==
    /\ extraction.op = "extract_entities" /\ ~extraction.returned
    /\ \E r \in extract_entities_obj(extraction.heap, extraction.message,
                                     extraction.current_entities, extraction.answer,
                                     extraction.today) :
          extraction' = [extraction EXCEPT !.returned = TRUE, !.raised = r.raised,
                                           !.after = r.heap, !.result = r.ref]
    /\ UNCHANGED <<entities, webVars, limVars, cliVars, appVars>>

ObjectNext == ExtractOnObjects

ObjectSpec == ObjectInit /\ [][ObjectNext]_vars

(***************************************************************************)
(* Claims about TravelEntities and EntityExtractor                         *)
(***************************************************************************)
StringSlots == {"date", "start_city", "end_city"}

\* C1: whatever updates came before, update() with any partial dictionary keeps
\* each of date, start_city, end_city and mid_city non-empty once it is
\* non-empty, and leaves a slot exactly as it was when the dictionary gives an
\* empty value for it or none.
C1_UpdateMonotonic ==
    \A d \in RawDicts : \A r \in UpdateResults(entities, d) :
        /\ \A k \in StringSlots :
            /\ Truthy(entities[k]) => Truthy(r[k])
            /\ (k \notin d.present \/ d[k] = "") => r[k] = entities[k]
        /\ TruthyList(entities.mid_city) => TruthyList(r.mid_city)
        /\ ("mid_city" \notin d.present \/ d.mid_city = <<>>) => r.mid_city = entities.mid_city

\* Updates have filled all four slots.
C1_Witness ==
    /\ \A k \in StringSlots : entities[k] # ""
    /\ Len(entities.mid_city) = 2

\* C2: is_complete() is true exactly when date, start_city and end_city are all
\* non-empty, whatever mid_city and prefered_transport hold, and
\* get_missing_entities() is empty exactly when is_complete() is true.
C2_CompleteIffThreeSlots ==
    /\ is_complete(entities) <=> (\A k \in StringSlots : entities[k] \notin {"", NULL})
    /\ \A ml \in MidLists, p \in [TransportKinds -> {0, 1}] :
          is_complete([entities EXCEPT !.mid_city = ml, !.prefered_transport = p])
              <=> is_complete(entities)
    /\ (get_missing_entities(entities) = <<>>) <=> is_complete(entities)

\* The fold has reached complete entities, with a waypoint and a preference.
C2_Witness ==
    /\ is_complete(entities)
    /\ entities.mid_city # <<>>
    /\ entities.prefered_transport["train"] = 1

\* Are two entity states the same, mid_city compared as a set?
SameEntities(a, b) ==
    /\ a.date = b.date
    /\ a.start_city = b.start_city
    /\ a.end_city = b.end_city
    /\ SetOf(a.mid_city) = SetOf(b.mid_city)
    /\ a.prefered_transport = b.prefered_transport

\* C3: when the extraction service call succeeds with a dictionary,
\* extract_entities returns the state update() would produce from
\* current_entities and that dictionary (mid_city the union of the known and
\* the newly extracted waypoints).
C3_PrimaryPathIsUpdate ==
    \A d \in RawDicts :
        \A r \in extract_entities(NoMessage, entities, [kind |-> "dict", d |-> d], AnyToday) :
            /\ r.raised = "none"
            /\ \E u \in UpdateResults(entities, d) : SameEntities(r.value, u)

\* C10: extract_entities runs the regex fallback exactly when the client raised
\* APIError, and then returns the fallback's result: no APIError reaches the
\* caller.
C10_FallbackIffAPIErrorAndReturns ==
    \A k \in ClientOutcomeKinds, m \in Messages, today \in Todays :
        \A r \in extract_entities(m, entities, [kind |-> k, d |-> NoDict], today) :
            /\ r.fallback <=> (k = "APIError")
            /\ r.raised # "APIError"
            /\ (k = "APIError") => r.raised = "none"

\* C11: for every message and every current_entities, the regex fallback leaves
\* a non-empty date, start_city or end_city as it is and keeps every waypoint
\* already in mid_city: a slot it changes was empty before.
C11_FallbackKeepsKnownSlots ==
    \A m \in Messages, today \in Todays :
        \A r \in _extract_entities_fallback(m, entities, today) :
            r.raised = "none" =>
                /\ \A k \in StringSlots :
                      /\ Truthy(entities[k]) => r.value[k] = entities[k]
                      /\ r.value[k] # entities[k] => ~Truthy(entities[k])
                /\ SetOf(entities.mid_city) \subseteq SetOf(r.value.mid_city)

\* The fallback runs on entities with a known date, origin and waypoint, for a
\* message that names another origin and another waypoint.
C11_Witness ==
    /\ Truthy(entities.date) /\ Truthy(entities.start_city) /\ Len(entities.mid_city) = 1
    /\ \E m \in Messages :
          /\ Truthy(m.start_city) /\ m.start_city # entities.start_city
          /\ m.mid_city # <<>> /\ ~(SetOf(m.mid_city) \subseteq SetOf(entities.mid_city))
          /\ \E today \in Todays : \E r \in _extract_entities_fallback(m, entities, today) :
                r.raised = "none" /\ Len(r.value.mid_city) = 2

(***************************************************************************)
(* Claims about MistralAIClient                                            *)
(***************************************************************************)
Constructed(t) == cpc[t] \notin {"new", "l106", "l107", "l108", "l110"}

\* C7: however the constructors of the clients interleave, exactly one
\* RateLimiter is ever created, and every extract_entities call of every client
\* acquires from it.
C7_OneSharedLimiter ==
    /\ limiters <= 1
    /\ \A t \in Threads : Constructed(t) => (limiters = 1 /\ _rate_limiter = 1)
    /\ \A t \in Threads : call[t].acquires > 0 => call[t].limiter = 1

\* Both clients are constructed and a call of each has acquired.
C7_Witness ==
    \A t \in Threads : Constructed(t) /\ call[t].acquires = 1

RateLimited(a) == a \in {"exc_429", "http_429", "http_429_int", "http_429_date"}

\* C8: in one extract_entities call a rate-limit answer to the first request
\* causes a sleep and exactly one retry; no call sends more than two requests; a
\* second request follows only a rate-limit answer to the first; and a retry
\* that fails ends the call with APIError.
C8_SleepAndRetryOnceOn429 ==
    \A t \in Threads :
        /\ call[t].requests <= 2
        /\ call[t].requests = 2 => RateLimited(call[t].first)
        /\ (call[t].outcome # "" /\ RateLimited(call[t].first))
              => (call[t].slept /\ call[t].requests = 2)
        /\ (call[t].outcome # "" /\ call[t].requests = 2
                /\ call[t].second \notin {"object", "array", "scalar"})
              => call[t].outcome = "APIError"

\* C9: every extract_entities call of the client ends with a dictionary parsed
\* from the answer or with APIError; an answer that is not a JSON object ends
\* it with APIError.
C9_DictOrAPIError ==
    \A t \in Threads : call[t].outcome \in {"", "dict", "APIError"}

(***************************************************************************)
(* Claims about RateLimiter                                                *)
(***************************************************************************)
\* acquire() calls that have returned, over all threads.
Completed == calls["t1"] + calls["t2"]

\* The lines of acquire() inside the with-block.
InCritical(t) == lpc[t] \in {"l63", "l64", "l70", "l73", "l74", "l78"}

\* C4: k acquire() calls issued back-to-back (the clock advances only while a
\* caller sleeps inside acquire) take at least (k-1)/max_rps seconds, that is
\* (k-1) * TokenUnit ticks, and no more than that.  Stated for the default
\* max_rps = 1, where the bucket starts with exactly one token.
C4_BackToBackTakesKMinusOneOverR ==
    (max_rps = 1 /\ idle = 0 /\ Completed >= 1 /\ \A t \in Threads : lpc[t] = "idle")
        => now = (Completed - 1) * TokenUnit

\* C5: at most one caller at a time is inside the refill-and-consume sequence
\* of acquire(), and it is the holder of the lock.
C5_MutualExclusion ==
    /\ \A t, u \in Threads : (InCritical(t) /\ InCritical(u)) => t = u
    /\ \A t \in Threads : InCritical(t) <=> lock = t

\* A caller sleeps inside acquire() while another caller waits for the lock.
C5_Witness ==
    \E t, u \in Threads : t # u /\ lpc[t] = "l73" /\ lpc[u] = "l62"

\* C6: every caller that invokes acquire() eventually returns from it.
C6_EventualAdmission ==
    \A t \in Threads : (lpc[t] = "l62") ~> (lpc[t] = "idle")

\* Every caller has returned from every call, one of them after a wait.
C6_Witness ==
    /\ \A t \in Threads : calls[t] = MaxCalls /\ lpc[t] = "idle"
    /\ \E t \in Threads : wait_time[t] > 0

(***************************************************************************)
(* Claims about GetRoutes                                                  *)
(***************************************************************************)
Ranked == ranking.op = "_get_fastest_routes" /\ ranking.returned
Aggregated == ranking.op = "get_aggregated_routes" /\ ranking.returned

\* The kinds with a group that occur among the segments.
KindsIn(segs) == {k \in transport_types : \E i \in DOMAIN segs : segs[i].transport_type = k}

C17_PreferenceFilter ==
    Aggregated =>
        LET pref == ranking.prefered_transport
            out == ranking.result
        IN  /\ (\E k \in DOMAIN pref : pref[k] = 1) =>
                  \A i \in DOMAIN out :
                      /\ out[i].transport_type \in DOMAIN pref
                      /\ pref[out[i].transport_type] = 1
            /\ (\A k \in DOMAIN pref : pref[k] = 0) =>
                  out \in get_aggregated_routes(ranking.answer, ranking.num_routes, NoPreference)

\* Only train is preferred, the search returned a train and another kind, and
\* the train segment came back.
C17_Witness ==
    /\ Aggregated
    /\ ranking.prefered_transport = [k \in TransportKinds |-> IF k = "train" THEN 1 ELSE 0]
    /\ \E i \in DOMAIN ranking.answer.segments : ranking.answer.segments[i].transport_type = "plane"
    /\ Len(ranking.result) = 1

(***************************************************************************)
(* Claims about GetRoutesWithStops                                         *)
(***************************************************************************)
Composed == journey.op = "find_multi_leg_route" /\ journey.returned

\* The search of a leg yields no segment or cannot be made.
LegFails(answer) == ~answer.found \/ ~answer.has_segments \/ answer.segments = <<>>

RECURSIVE SumOf(_)
SumOf(seq) == IF seq = <<>> THEN 0 ELSE Head(seq) + SumOf(Tail(seq))

\* C18: find_multi_leg_route returns None exactly when the search of at least
\* one consecutive pair of stops yields no segment or cannot be made; what it
\* returns otherwise covers every leg.
C18_NoneIffSomeLegFails ==
    Composed =>
        /\ ~journey.result.found <=> (\E i \in DOMAIN journey.answers : LegFails(journey.answers[i]))
        /\ journey.result.found => Len(journey.result.route) = Len(journey.stops) - 1

\* Three stops, the first leg found and the second one without segments.
C18_Witness ==
    /\ Composed /\ Len(journey.stops) = 3
    /\ ~LegFails(journey.answers[1]) /\ LegFails(journey.answers[2])
    /\ ~journey.result.found

\* C19: a successful find_multi_leg_route for stops s0..sn returns n legs in
\* the order of the stops, leg i from s(i) to s(i+1) with at most 3 segments of
\* the leg's search in non-decreasing order of duration, the first of them a
\* fastest segment of the leg; total_duration and total_distance are the sums
\* over the legs of that segment's duration and distance.
C19_LegsAndTotals ==
    (Composed /\ journey.result.found) =>
        LET res == journey.result
            n == Len(journey.stops) - 1
        IN  /\ Len(res.route) = n
            /\ \A i \in 1..n :
                  LET leg == res.route[i]
                      inp == journey.answers[i].segments
                  IN  /\ leg.from = journey.stops[i] /\ leg.to = journey.stops[i + 1]
                      /\ Len(leg.routes) \in 1..3
                      /\ SetOf(leg.routes) \subseteq SetOf(inp)
                      /\ \A a, b \in DOMAIN leg.routes :
                            a < b => DurationLeq(leg.routes[a], leg.routes[b])
                      /\ \A j \in DOMAIN inp : DurationLeq(leg.routes[1], inp[j])
            /\ res.total_duration = SumOf([i \in 1..n |-> GetOr0(res.route[i].routes[1].duration)])
            /\ res.total_distance = SumOf([i \in 1..n |-> GetOr0(res.route[i].routes[1].distance)])

\* Two legs found, the first from four segments returned slowest first, with
\* different fastest segments.
C19_Witness ==
    /\ Composed /\ journey.result.found /\ Len(journey.stops) = 3
    /\ Len(journey.answers[1].segments) = 4
    /\ journey.answers[1].segments[1].duration = 20
    /\ journey.result.total_duration = 30
    /\ journey.result.total_distance = 5

(***************************************************************************)
(* Claims about MessageHandler                                             *)
(***************************************************************************)
\* A process_message call on a non-empty thread has ended, by return or by an
\* exception.
TurnOver ==
    /\ turn.op = "process_message"
    /\ turn.thread # <<>>
    /\ turn.pc \in {"returned", "raised"}

\* C12: process_message on a non-empty thread returns a schedule response
\* exactly when the entities folded from the thread are complete, and
\* otherwise a message response that asks for exactly the slots among date,
\* start_city and end_city that are still empty.
C12_ScheduleIffComplete ==
    TurnOver =>
        /\ turn.pc = "returned"
        /\ turn.response.kind = "schedule" <=> is_complete(entities)
        /\ ~is_complete(entities) =>
              /\ turn.response.kind = "message"
              /\ SetOf(turn.response.asks) = {k \in StringSlots : ~Truthy(entities[k])}

\* C13: a turn starts from empty entities, invokes the extractor once for
\* each message of the thread in arrival order, hands each invocation what the
\* one before returned, and decides on what the last invocation returned.
C13_OneInvocationPerMessage ==
    TurnOver =>
        /\ turn.pc = "returned"
        /\ Len(turn.invoked) = Len(turn.thread)
        /\ \A n \in DOMAIN turn.invoked :
              /\ turn.invoked[n].message = n
              /\ turn.invoked[n].passed =
                    (IF n = 1 THEN EmptyEntities ELSE turn.invoked[n - 1].returned)
        /\ entities = turn.invoked[Len(turn.invoked)].returned

\* C14: with complete entities and no itinerary from the route composition,
\* process_message returns a message asking to refine the query, never a
\* schedule response.
C14_NoItineraryAsksToRefine ==
    (TurnOver /\ turn.pc = "returned" /\ is_complete(entities) /\ ~turn.itinerary.found) =>
        /\ turn.response.kind = "message"
        /\ turn.response.purpose = "refine_query"

\* C15: process_message never raises; an error inside the turn ends in a
\* message response that apologises.
C15_ErrorsBecomeApology ==
    (turn.op = "process_message" /\ turn.raised # "none") =>
        /\ turn.pc = "returned"
        /\ turn.response.kind = "message"
        /\ turn.response.purpose = "apology"

(***************************************************************************)
(* Claims about EntityExtractor._extract_date                              *)
(***************************************************************************)
DateExtracted == date_call.op = "_extract_date" /\ date_call.returned

\* The strings dd.mm.yyyy with day 1..31, month 1..12 and year 2000..2100.
WellFormedDates ==
    {TwoDigits(d) \o "." \o TwoDigits(m) \o "." \o ToString(y) :
        d \in 1..31, m \in 1..12, y \in 2000..2100}

\* The text is day, month and year of one, two and two or four digits, set
\* apart by one kind of separator.
PlainDate(t) ==
    /\ Len(t.groups) = 3
    /\ Len(t.groups[1]) \in 1..2 /\ Len(t.groups[2]) \in 1..2 /\ Len(t.groups[3]) \in {2, 4}
    /\ t.seps[1] = t.seps[2]

YearOf(g) == IF Len(g) = 2 THEN 2000 + IntOf(g) ELSE IntOf(g)

\* C20: for every message the fallback date extractor returns "" or a string
\* dd.mm.yyyy with day in 1..31, month in 1..12 and year in 2000..2100; a
\* numeric date day-month-year with '.', '/' or '-' comes back with '.' and a
\* two-digit year yy as 20yy, and one outside the ranges comes back as "".
C20_EmptyOrNormalisedDate ==
    DateExtracted =>
        LET t == date_call.message.numdate
            r == date_call.result
        IN  /\ r.raised = "none"
            /\ r.value = "" \/ r.value \in WellFormedDates
            /\ PlainDate(t) =>
                  r.value =
                    (IF DateInRange(IntOf(t.groups[1]), IntOf(t.groups[2]), YearOf(t.groups[3]))
                     THEN TwoDigits(IntOf(t.groups[1])) \o "." \o TwoDigits(IntOf(t.groups[2]))
                          \o "." \o ToString(YearOf(t.groups[3]))
                     ELSE "")

(***************************************************************************)
(* More claims about TravelEntities                                        *)
(***************************************************************************)
\* C21: update() is idempotent, and updating with the object's own to_dict()
\* changes nothing: update(d) applied twice gives the state one application
\* gives, and update(e.to_dict()) leaves e as it is (mid_city compared as a
\* set).
C21_UpdateIdempotent ==
    /\ \A d \in RawDicts : \A once \in UpdateResults(entities, d) :
          \A twice \in UpdateResults(once, d) : SameEntities(twice, once)
    /\ \A same \in UpdateResults(entities, to_dict(entities)) : SameEntities(same, entities)

\* The object holds a date, two waypoints and a selected transport, and a
\* dictionary names that transport again with another start city.
C21_Witness ==
    /\ Truthy(entities.date)
    /\ Len(entities.mid_city) = 2
    /\ entities.prefered_transport["train"] = 1
    /\ \E d \in RawDicts :
          /\ "prefered_transport" \in d.present
          /\ "train" \in DOMAIN d.prefered_transport /\ d.prefered_transport["train"] = 1
          /\ \E once \in UpdateResults(entities, d) : once.start_city # entities.start_city

\* C22: after update(new_values) each of the flags train, plane and bus equals
\* the supplied value when new_values' prefered_transport has the key, a
\* supplied 0 overwriting a 1, and is unchanged when the key is absent.
C22_PerKeyOverwrite ==
    \A d \in RawDicts : \A r \in UpdateResults(entities, d) : \A k \in TransportKinds :
        IF "prefered_transport" \in d.present /\ k \in DOMAIN d.prefered_transport
        THEN r.prefered_transport[k] = d.prefered_transport[k]
        ELSE r.prefered_transport[k] = entities.prefered_transport[k]

\* A flag is 1 and some dictionary supplies 0 for it.
C22_Witness ==
    /\ entities.prefered_transport["train"] = 1
    /\ entities.prefered_transport["bus"] = 1
    /\ \E d \in RawDicts : \E r \in UpdateResults(entities, d) :
          /\ "prefered_transport" \in d.present
          /\ DOMAIN d.prefered_transport = {"train"}
          /\ d.prefered_transport["train"] = 0
          /\ r.prefered_transport["train"] = 0 /\ r.prefered_transport["bus"] = 1

(***************************************************************************)
(* Claims about the function get_routes of service/get_routes.py           *)
(***************************************************************************)
\* C23: get_routes called with at least two points and an invalid date string
\* raises an exception; it does not return a value.
C23_InvalidDateRaises ==
    (/\ journey.op = "get_routes" /\ journey.returned
     /\ Len(journey.points) >= 2
     /\ ~ValidDate(journey.date)) => journey.result.raised # "none"

(***************************************************************************)
(* More claims about RateLimiter                                           *)
(***************************************************************************)
\* C24: in every interval of length T at most max_rps * T + max_rps calls of
\* acquire() return, with any number of callers; stated for the intervals that
\* start when the limiter is constructed (clock 0), in token units: a call is
\* TokenUnit units, and a tick refills one unit.
C24_AtMostRatePlusCapacity ==
    Completed * TokenUnit <= now + max_rps * TokenUnit

\* What one step of caller t's acquire() does, by the line it leaves.
C25_Step(t) ==
    /\ (lpc[t] = "l64" /\ lpc'[t] = "l70") =>
          tokens' = Min(max_rps * TokenUnit, tokens + (current_time[t] - last_check))
    /\ (lpc[t] = "l70" /\ lpc'[t] # "l70") =>
          IF tokens >= TokenUnit
          THEN lpc'[t] = "l78" /\ wait_time'[t] = 0 /\ now' = now
          ELSE lpc'[t] = "l73" /\ wait_time'[t] = TokenUnit - tokens
    /\ (lpc[t] = "l73" /\ lpc'[t] # "l73") => now' = now + wait_time[t] /\ tokens' = tokens
    /\ (lpc[t] = "l74" /\ lpc'[t] # "l74") =>
          tokens' = 0 /\ wait_time'[t] = wait_time[t] /\ wait_time[t] > 0
    /\ (lpc[t] = "l78" /\ lpc'[t] # "l78") =>
          tokens' = tokens - TokenUnit /\ wait_time'[t] = 0

\* C25: acquire() refills tokens by the elapsed time times max_rps, capped at
\* max_rps; with at least one token it takes one and returns 0 without
\* waiting; otherwise it sleeps exactly (1 - tokens) / max_rps, sets tokens to
\* 0 and returns that wait.  tokens stays within 0..max_rps throughout.
C25_RefillConsumeOrWait ==
    /\ [](0 <= tokens /\ tokens <= max_rps * TokenUnit)
    /\ [][\A t \in Threads : C25_Step(t)]_vars

\* One caller has returned after a wait that left the bucket empty, another
\* at once, and the clock has run on since.
C25_Witness ==
    /\ \E t, u \in Threads :
          /\ lpc[t] = "idle" /\ calls[t] >= 1 /\ wait_time[t] > 0
          /\ lpc[u] = "idle" /\ calls[u] >= 1 /\ wait_time[u] = 0
    /\ idle > 0

(***************************************************************************)
(* More claims about MistralAIClient                                       *)
(***************************************************************************)
\* C26: in every extract_entities call of a client with an API key, acquire()
\* has been called and has returned before any request of the call is sent.
C26_AcquireBeforeRequest ==
    \A t \in Threads :
        /\ call[t].requests > 0 => (call[t].acquired_first /\ call[t].acquires > 0)
        /\ cpc[t] \in {"l153", "sleep", "retry"} => call[t].acquires > 0

\* Both threads' calls have sent a request, and one of them had to wait in
\* acquire().
C26_Witness ==
    /\ \A t \in Threads : call[t].requests > 0 /\ client[t].api_key
    /\ now > 0

\* C27: one extract_entities call calls acquire() exactly once, also when it
\* sends two requests; a call that fails on a missing API key calls acquire()
\* zero times and sends no request.
C27_OneAcquirePerCall ==
    \A t \in Threads :
        /\ call[t].acquires <= 1
        /\ call[t].requests > 0 => call[t].acquires = 1
        /\ (cpc[t] = "ended" /\ client[t].api_key) => call[t].acquires = 1
        /\ (Constructed(t) /\ ~client[t].api_key) =>
              /\ call[t].acquires = 0 /\ call[t].requests = 0
              /\ cpc[t] = "ended" => call[t].outcome = "APIError"

\* One call has ended after two requests, another on a missing key.
C27_Witness ==
    \E t, u \in Threads :
        /\ cpc[t] = "ended" /\ call[t].requests = 2
        /\ cpc[u] = "ended" /\ ~client[u].api_key

(***************************************************************************)
(* More claims about the fallback of EntityExtractor                       *)
(***************************************************************************)
\* C28: the fallback only ever selects a transport: for every message and
\* every current preference a flag that is 1 before the fallback is 1 after
\* it, and a message with none of the transport keywords leaves the mapping
\* as it is.
C28_FallbackOnlySelects ==
    \A m \in Messages :
        /\ LET t == _extract_transport(m, entities.prefered_transport)
           IN  /\ \A k \in TransportKinds : entities.prefered_transport[k] = 1 => t[k] = 1
               /\ m.transport = {} => t = entities.prefered_transport
        /\ \A today \in Todays : \A r \in _extract_entities_fallback(m, entities, today) :
              r.raised = "none" =>
                 /\ \A k \in TransportKinds :
                       entities.prefered_transport[k] = 1 => r.value.prefered_transport[k] = 1
                 /\ m.transport = {} => r.value.prefered_transport = entities.prefered_transport

\* The train is selected already, and a message with a bus keyword and one
\* with no transport keyword go through the fallback.
C28_Witness ==
    /\ entities.prefered_transport = [k \in TransportKinds |-> IF k = "train" THEN 1 ELSE 0]
    /\ \E m \in Messages, today \in Todays :
          /\ m.transport = {"bus"}
          /\ \E r \in _extract_entities_fallback(m, entities, today) :
                /\ r.raised = "none"
                /\ r.value.prefered_transport["train"] = 1
                /\ r.value.prefered_transport["bus"] = 1
    /\ \E m \in Messages, today \in Todays :
          /\ m.transport = {} /\ m.start_city # ""
          /\ \E r \in _extract_entities_fallback(m, entities, today) :
                r.raised = "none" /\ r.value.prefered_transport = entities.prefered_transport

(***************************************************************************)
(* More claims about EntityExtractor._extract_date                         *)
(***************************************************************************)
\* The text is year, month and day: a first group of four digits, then one or
\* two digits twice, one kind of separator, and values in the accepted ranges.
YearFirstDate(t) ==
    /\ Len(t.groups) = 3
    /\ Len(t.groups[1]) = 4 /\ Len(t.groups[2]) \in 1..2 /\ Len(t.groups[3]) \in 1..2
    /\ t.seps[1] = t.seps[2]
    /\ DateInRange(IntOf(t.groups[3]), IntOf(t.groups[2]), IntOf(t.groups[1]))

\* C29: a numeric date written year first (a first group of four digits, as
\* in 2025-05-01) is recognised as year-month-day and comes back as the date
\* with that day, month and year (01.05.2025).
C29_YearFirstRecognised ==
    (DateExtracted /\ YearFirstDate(date_call.message.numdate)) =>
        LET t == date_call.message.numdate
            r == date_call.result
        IN  /\ r.raised = "none"
            /\ r.value = TwoDigits(IntOf(t.groups[3])) \o "." \o TwoDigits(IntOf(t.groups[2]))
                         \o "." \o DigitString(t.groups[1])

\* The calendar day n days after today, as dd.mm.yyyy: April 2025 is followed
\* by May.
CalendarDayAfter(today, n) ==
    IF today.day + n <= today.days_in_month
    THEN Strftime(today.day + n)
    ELSE TwoDigits(today.day + n - today.days_in_month) \o ".05.2025"

\* C30: on every current date, the last days of a month included, and for
\* every message without a numeric date, the date extractor returns without
\* raising: today's date for the word for today, the next calendar day for
\* tomorrow, the day after that for the day after tomorrow, and "" when none
\* of the words occurs.
C30_DateWordsOnEveryDay ==
    (DateExtracted /\ date_call.message.numdate = NoDateText) =>
        LET w == date_call.message.word
            r == date_call.result
        IN  /\ r.raised = "none"
            /\ r.value = (CASE w = DateWords[1] -> CalendarDayAfter(date_call.today, 0)
                            [] w = DateWords[2] -> CalendarDayAfter(date_call.today, 1)
                            [] w = DateWords[3] -> CalendarDayAfter(date_call.today, 2)
                            [] OTHER -> "")

(***************************************************************************)
(* More claims about MessageHandler                                        *)
(***************************************************************************)
\* The kinds of slot the entities hold a value for, the waypoints and the
\* transport preference included.
KnownSlotKinds(e) ==
    {k \in {"date", "start_city", "end_city"} : Truthy(e[k])}
    \cup (IF TruthyList(e.mid_city) THEN {"mid_city"} ELSE {})
    \cup (IF \E k \in TransportKinds : e.prefered_transport[k] = 1
          THEN {"prefered_transport"} ELSE {})

\* C31: when the folded entities are incomplete, the clarification message
\* lists every known slot (date, origin, destination, waypoints, transport
\* preference); it lists nothing only when no slot at all is known.
C31_SummaryListsEveryKnownSlot ==
    (TurnOver /\ turn.response.kind = "message" /\ turn.response.purpose = "clarification") =>
        SetOf(turn.response.knows) = KnownSlotKinds(entities)

(***************************************************************************)
(* More claims about GetRoutes                                             *)
(***************************************************************************)
\* How many elements of seq equal x.
Occurrences(seq, x) == Cardinality({i \in DOMAIN seq : seq[i] = x})

\* C32: for every segment list, lists with equal segments included, and every
\* num_routes >= 0 the ranker returns exactly min(num_routes, number of
\* segments) segments, and no segment occurs in the output more often than in
\* the input.
C32_ExactlyMinOfCountAndSegments ==
    (ranking.op = "_get_fastest_routes" /\ ranking.returned) =>
        LET inp == ranking.answer.segments
            out == ranking.result
        IN  /\ Len(out) = Min(ranking.num_routes, Len(inp))
            /\ \A x \in SetOf(out) : Occurrences(out, x) <= Occurrences(inp, x)

\* The requests of the call in progress sent to one endpoint for one purpose.
RequestsFor(endpoint, city) ==
    {i \in DOMAIN ranking.requests :
        ranking.requests[i].endpoint = endpoint /\ ranking.requests[i].city = city}

RequestFailed == \E i \in DOMAIN ranking.requests : ranking.requests[i].outcome # "ok"

\* C33: GetRoutes.get_routes sends at most one search request per call and
\* none when one of the cities has no code; no request is sent again after it
\* failed (each directory lookup and the search go out at most once); a call
\* in which a directory or search request failed returns no routes, and a
\* call returns no routes only when no search succeeded.
C33_OneSearchNoRetry ==
    ranking.op = "get_routes" =>
        /\ Cardinality(RequestsFor("search", "")) <= 1
        /\ Cardinality(RequestsFor("stations_list", "from")) <= 1
        /\ Cardinality(RequestsFor("stations_list", "to")) <= 1
        /\ (ranking.pc \in {"l58", "done"}
              /\ (ranking.from_code = NoCode \/ ranking.to_code = NoCode))
              => RequestsFor("search", "") = {}
        /\ ranking.returned =>
              /\ RequestFailed => ranking.result = NoRoutes
              /\ ranking.result.found <=>
                    \E i \in RequestsFor("search", "") : ranking.requests[i].outcome = "ok"

\* The directory request for the origin timed out, the lookup of the
\* destination was made all the same, and the call returned no routes.
C33_Witness ==
    /\ ranking.op = "get_routes" /\ ranking.returned
    /\ ranking.requests[1].outcome = "Timeout"
    /\ Len(ranking.requests) = 2
    /\ ranking.result = NoRoutes

(***************************************************************************)
(* Claims about process_user_request                                       *)
(***************************************************************************)
\* C34: whatever requests the sessions send, the history handed to the
\* dialogue handler for a request of session s is the sequence of messages
\* appended to the log under s before the request's own message, in the
\* order they arrived: no message of another session, and none of s missing.
C34_HistoryIsTheSessionLog ==
    \A s \in Sessions :
        request[s].pc = "raised" =>
            ParseAll(redis_client[s])
                = request[s].thread \o <<RedisMessage("user", request[s].text)>>

(***************************************************************************)
(* Claims about the fold over a thread                                     *)
(***************************************************************************)
\* C35: in a fold, on the primary and on the fallback path and whatever the
\* extraction service answers, each of date, start_city and end_city that is
\* non-empty after one message is non-empty after every later message; so
\* entities that are complete stay complete.
C35_FoldKeepsSlotsFilled ==
    [][/\ \A k \in StringSlots : Truthy(entities[k]) => Truthy(entities'[k])
       /\ is_complete(entities) => is_complete(entities')]_vars

\* The fold holds complete entities, with a waypoint, that later messages
\* are folded into.
C35_Witness ==
    /\ is_complete(entities)
    /\ TruthyList(entities.mid_city)

(***************************************************************************)
(* Claims about the objects of extract_entities                            *)
(***************************************************************************)
\* C36: extract_entities does not modify the current_entities object it is
\* given, on the primary and on the fallback path: after the call its date,
\* start_city and end_city, its mid_city list with its contents and its
\* prefered_transport dict with its contents are what they were before.
C36_ArgumentUntouched ==
    (extraction.op = "extract_entities" /\ extraction.returned) =>
        LET cur == extraction.current_entities
        IN  /\ extraction.after.objs[cur] = extraction.heap.objs[cur]
            /\ Deref(extraction.after, cur) = Deref(extraction.heap, cur)

\* The fallback ran on entities with a waypoint and a preference for a
\* message that names another waypoint and another kind of transport, and
\* returned a new object with both.
C36_Witness ==
    /\ extraction.op = "extract_entities" /\ extraction.returned
    /\ extraction.answer.kind = "APIError" /\ extraction.raised = "none"
    /\ extraction.result # extraction.current_entities
    /\ TruthyList(Deref(extraction.heap, extraction.current_entities).mid_city)
    /\ Len(Deref(extraction.after, extraction.result).mid_city) = 2
    /\ Deref(extraction.after, extraction.result).prefered_transport["bus"] = 1
    /\ Deref(extraction.heap, extraction.current_entities).prefered_transport["bus"] = 0

(***************************************************************************)
(* Claims about the transport preference in process_message                *)
(***************************************************************************)
\* Lines 83-89: the response for folded entities e when the route service
\* does what `a` says.
ResponseFor(e, a) ==
    IF is_complete(e)
    THEN _generate_schedule_response(e, a.legs_raise, a.answers, a.direct_raises,
                                     a.direct_route)
    ELSE _generate_clarification_message(e)

\* C37: the response of process_message does not depend on the transport
\* preference: a run whose folded entities have the same date, start_city,
\* end_city and mid_city and any other prefered_transport, and that gets the
\* same answers from the route service, returns the same response.
C37_ResponseIgnoresPreference ==
    (TurnOver /\ turn.pc = "returned") =>
        \A p \in [TransportKinds -> {0, 1}] :
            ResponseFor([entities EXCEPT !.prefered_transport = p], turn.route_service)
                = turn.response

\* A turn whose entities prefer the bus returned the schedule of a leg found
\* by train, the direct search finding nothing.
C37_Witness ==
    /\ TurnOver /\ turn.pc = "returned"
    /\ entities.prefered_transport["bus"] = 1
    /\ turn.response.kind = "schedule"
    /\ turn.itinerary.found
    /\ turn.itinerary.route[1].routes[1].transport_type = "train"
    /\ ~turn.route_service.direct_route.found

(***************************************************************************)
(* Claims about MessageHandler._get_message_text                           *)
(***************************************************************************)
\* C38: every message of the thread whose text is not empty contributes to
\* the fold, the extractor being handed the text itself or, for a JSON object
\* with the key "text", the value of that key; only a message with an empty
\* text is skipped (a text that parses as a JSON number, string, list, true
\* or null is not dropped).
C38_NonEmptyTextsContribute ==
    (TurnOver /\ turn.pc = "returned") =>
        \A i \in DOMAIN turn.thread :
            LET message == turn.thread[i]
                is_empty == message.form = "plain" /\ message.empty
                handed == {n \in DOMAIN turn.invoked : turn.invoked[n].message = i}
            IN  /\ ~is_empty => \E n \in handed : turn.invoked[n].text = message.text
                /\ is_empty => handed = {}

====
